---------------------------- MODULE Spec2Model ----------------------------
(***************************************************************************)
(* CyberSaga: the generation-and-validation pipeline of SecurityGuideAgent *)
(* (src/agent.py), the UserProfile progress tracker (src/user_profile.py), *)
(* the pages of the Streamlit session (src/app.py,                         *)
(* src/certificate_generator.py) and the profile file that sessions share. *)
(*                                                                         *)
(* A model response is a sequence of tokens.  A token is an indivisible    *)
(* run of characters: one of the JSON structural characters, a double      *)
(* quote, a whitespace character, a triple-backtick fence, or a word.      *)
(* The regular expressions and json.loads of the code work on these        *)
(* sequences, so extraction and parsing are computed, not assumed.         *)
(***************************************************************************)
EXTENDS Integers, Sequences, FiniteSets, TLC

VARIABLES
    response,      \* what self.agent.run(prompt) did: [raised, content]
    payload,       \* the JSON value and the layout the remote model meant to send
    call,          \* the generator method that ran on `response`, "none" before
    args,          \* the arguments of a generate_knowledge_assessment call
    result,        \* what the call returned to its caller (or that it raised)
    profile,       \* UserProfile.profile, the profile document in memory
    file,          \* profiles/<user_id>.json: <<>>, or <<the document saved last>>
                   \* (SpecStore: <<the text of the file>>)
    reads,         \* number of read-only calls made on the profile
    recorded,      \* the calls of record_scenario_completion, in call order
                   \* (SpecStore: the saves that were completed, in order;
                   \* SpecReliable: the attempt that Start Scenario began)
    session,       \* st.session_state of the Streamlit session
                   \* (SpecStore: the sessions that hold a UserProfile)
    sent           \* the prompts that a generator call passed to
                   \* self.agent.run, in order (SpecGenerators)

vars == <<response, payload, call, args, result, profile, file, reads,
          recorded, session, sent>>

agentVars == <<response, payload, call, args, result>>
profileVars == <<profile, file, reads, recorded>>

-----------------------------------------------------------------------------
(* Bounds of the model *)

\* longest options list of a generated decision point or question
MaxOptions == 2
\* longest list of decision points or questions in a generated payload
MaxPoints == 2
\* longest response made of arbitrary tokens
MaxGarbage == 3

-----------------------------------------------------------------------------
(* Tokens *)

QUOTE == "\""
\* the triple backtick that opens or closes a fenced code block
FENCE == "<fence>"
WS == {" ", "\n"}

-----------------------------------------------------------------------------
(* Python values as json.loads builds them.  Every value is a pair: its    *)
(* type, then its content.  A str holds its tokens; a dict is a function   *)
(* from keys (strs, held as token sequences) to values.                    *)

None == <<"null", "null">>
JBool(b) == <<"bool", b>>
JNum(n) == <<"num", n>>
JStr(s) == <<"str", s>>
JArr(s) == <<"arr", s>>
JObj(f) == <<"obj", f>>

\* a str of one word
W(word) == JStr(<<word>>)
\* a dict key of one word
K(word) == <<word>>

EmptyDict == [x \in {} |-> None]

\* d[key] = value on a dict content
DictSet(f, key, value) ==
    [x \in (DOMAIN f) \cup {key} |-> IF x = key THEN value ELSE f[x]]

IsList(x) == x[1] = "arr"
IsDict(x) == x[1] = "obj"

\* bool(x)
Truthy(x) ==
    CASE x[1] = "bool" -> x[2]
      [] x[1] = "num" -> x[2] # 0
      [] x[1] = "str" -> Len(x[2]) > 0
      [] x[1] = "arr" -> Len(x[2]) > 0
      [] x[1] = "obj" -> DOMAIN x[2] # {}
      [] OTHER -> FALSE

\* `key in x` is defined for dict (a key), list (an element) and str (a
\* substring); on None, bool and int it raises TypeError
SupportsIn(x) == x[1] \in {"obj", "arr", "str"}

Contains(x, key) ==
    CASE x[1] = "obj" -> key \in DOMAIN x[2]
      [] x[1] = "arr" -> \E i \in 1..Len(x[2]) : x[2][i] = JStr(key)
      [] x[1] = "str" -> \E i \in 1..Len(x[2]) :
                            /\ i + Len(key) - 1 <= Len(x[2])
                            /\ SubSeq(x[2], i, i + Len(key) - 1) = key
      [] OTHER -> FALSE

-----------------------------------------------------------------------------
(* str.strip, json.loads *)

RECURSIVE SkipWs(_, _)
\* the first index >= i of s that holds no whitespace (Len(s) + 1 if none)
SkipWs(s, i) == IF i <= Len(s) /\ s[i] \in WS THEN SkipWs(s, i + 1) ELSE i

RECURSIVE RSkipWs(_, _)
\* the last index <= i of s that holds no whitespace (0 if none)
RSkipWs(s, i) == IF i >= 1 /\ s[i] \in WS THEN RSkipWs(s, i - 1) ELSE i

Strip(s) == SubSeq(s, SkipWs(s, 1), RSkipWs(s, Len(s)))

\* json.JSONDecodeError
Fail == [ok |-> FALSE, val |-> None, pos |-> 0]
Ok(value, next) == [ok |-> TRUE, val |-> value, pos |-> next]

RECURSIVE ClosingQuote(_, _)
\* the index of the first double quote at or after i (Len(s) + 1 if none)
ClosingQuote(s, i) ==
    IF i <= Len(s) /\ s[i] # QUOTE THEN ClosingQuote(s, i + 1) ELSE i

\* a string literal that opens at s[i]; a raw newline inside it is an
\* invalid control character
ParseString(s, i) ==
    LET j == ClosingQuote(s, i + 1) IN
    IF j > Len(s) \/ \E n \in (i + 1)..(j - 1) : s[n] = "\n"
    THEN Fail
    ELSE Ok(JStr(SubSeq(s, i + 1, j - 1)), j + 1)

\* the decimal digits; Numerals[d + 1] is the digit d
Numerals == <<"0", "1", "2", "3", "4", "5", "6", "7", "8", "9">>

IsDigit(token) == \E d \in 1..10 : Numerals[d] = token

DigitValue(token) == (CHOOSE d \in 1..10 : Numerals[d] = token) - 1

RECURSIVE ParseDigits(_, _, _)
\* the digits from s[i] on continue the number acc
ParseDigits(s, i, acc) ==
    IF i <= Len(s) /\ IsDigit(s[i])
    THEN ParseDigits(s, i + 1, acc * 10 + DigitValue(s[i]))
    ELSE [val |-> acc, pos |-> i]

\* an integer literal whose first digit is s[i]: 0 alone, or a digit from
\* 1 to 9 and the digits after it
ParseNumber(s, i) ==
    IF s[i] = "0" THEN Ok(JNum(0), i + 1)
    ELSE LET r == ParseDigits(s, i, 0) IN Ok(JNum(r.val), r.pos)

RECURSIVE ParseValue(_, _), ParseElems(_, _, _), ParseMembers(_, _, _)

\* the JSON value that starts at s[i]
ParseValue(s, i) ==
    IF i > Len(s) THEN Fail
    ELSE CASE s[i] = QUOTE -> ParseString(s, i)
           [] s[i] = "true" -> Ok(JBool(TRUE), i + 1)
           [] s[i] = "false" -> Ok(JBool(FALSE), i + 1)
           [] s[i] = "null" -> Ok(None, i + 1)
           [] IsDigit(s[i]) -> ParseNumber(s, i)
           [] s[i] = "-" ->
                IF i < Len(s) /\ IsDigit(s[i + 1])
                THEN LET r == ParseNumber(s, i + 1) IN Ok(JNum(0 - r.val[2]), r.pos)
                ELSE Fail
           [] s[i] = "[" ->
                LET j == SkipWs(s, i + 1) IN
                IF j <= Len(s) /\ s[j] = "]" THEN Ok(JArr(<<>>), j + 1)
                ELSE ParseElems(s, j, <<>>)
           [] s[i] = "{" ->
                LET j == SkipWs(s, i + 1) IN
                IF j <= Len(s) /\ s[j] = "}" THEN Ok(JObj(EmptyDict), j + 1)
                ELSE ParseMembers(s, j, EmptyDict)
           [] OTHER -> Fail

\* the elements of an array from s[i] on, after the elements in acc
ParseElems(s, i, acc) ==
    LET r == ParseValue(s, i) IN
    IF ~r.ok THEN Fail
    ELSE LET j == SkipWs(s, r.pos) IN
         IF j > Len(s) THEN Fail
         ELSE IF s[j] = "," THEN ParseElems(s, SkipWs(s, j + 1), Append(acc, r.val))
         ELSE IF s[j] = "]" THEN Ok(JArr(Append(acc, r.val)), j + 1)
         ELSE Fail

\* the members of an object from s[i] on, after the members in acc; a
\* repeated key keeps its last value
ParseMembers(s, i, acc) ==
    IF i > Len(s) \/ s[i] # QUOTE THEN Fail
    ELSE LET key == ParseString(s, i) IN
         IF ~key.ok THEN Fail
         ELSE LET c == SkipWs(s, key.pos) IN
              IF c > Len(s) \/ s[c] # ":" THEN Fail
              ELSE LET r == ParseValue(s, SkipWs(s, c + 1)) IN
                   IF ~r.ok THEN Fail
                   ELSE LET j == SkipWs(s, r.pos)
                            now == DictSet(acc, key.val[2], r.val)
                        IN IF j > Len(s) THEN Fail
                           ELSE IF s[j] = "," THEN ParseMembers(s, SkipWs(s, j + 1), now)
                           ELSE IF s[j] = "}" THEN Ok(JObj(now), j + 1)
                           ELSE Fail

\* json.loads(s): one value, whitespace around it allowed, nothing else
Loads(s) ==
    LET r == ParseValue(s, SkipWs(s, 1)) IN
    IF r.ok /\ SkipWs(s, r.pos) > Len(s) THEN r ELSE Fail

-----------------------------------------------------------------------------
(* The regular expressions of agent.py *)

NoMatch == [found |-> FALSE, lo |-> 0, hi |-> 0]

\* Variant of SearchArray: the pattern with a lazy .*?, which stops at the
\* first "}" that whitespace and "]" follow
SearchArrayLazy(content) ==
    LET n == Len(content)
        brace(i) == SkipWs(content, i + 1)
        ends(i) == {j \in (brace(i) + 2)..n :
                        /\ content[j] = "]"
                        /\ RSkipWs(content, j - 1) > brace(i)
                        /\ content[RSkipWs(content, j - 1)] = "}"}
        starts == {i \in 1..n :
                        /\ content[i] = "["
                        /\ brace(i) <= n
                        /\ content[brace(i)] = "{"
                        /\ ends(i) # {}}
    IN IF starts = {} THEN NoMatch
       ELSE LET lo == CHOOSE i \in starts : \A x \in starts : i <= x
                hi == CHOOSE j \in ends(lo) : \A x \in ends(lo) : j <= x
            IN [found |-> TRUE, lo |-> lo, hi |-> hi]

\* re.search(r'\[\s*{.*}\s*\]', content, re.DOTALL): the leftmost "[" that,
\* after whitespace, is followed by "{", up to the last "]" that, before
\* whitespace, is preceded by a later "}" (.* is greedy)
SearchArray(content) ==
    LET n == Len(content)
        brace(i) == SkipWs(content, i + 1)
        ends(i) == {j \in (brace(i) + 2)..n :
                        /\ content[j] = "]"
                        /\ RSkipWs(content, j - 1) > brace(i)
                        /\ content[RSkipWs(content, j - 1)] = "}"}
        starts == {i \in 1..n :
                        /\ content[i] = "["
                        /\ brace(i) <= n
                        /\ content[brace(i)] = "{"
                        /\ ends(i) # {}}
    IN IF starts = {} THEN NoMatch
       ELSE LET lo == CHOOSE i \in starts : \A x \in starts : i <= x
                hi == CHOOSE j \in ends(lo) : \A x \in ends(lo) : x <= j
            IN [found |-> TRUE, lo |-> lo, hi |-> hi]

\* re.sub(r'```json|```', '', content): every ``` goes, and with it the
\* word json that follows it
SubFences(content) ==
    LET kept == SelectSeq([i \in 1..Len(content) |-> i],
                    LAMBDA i : /\ content[i] # FENCE
                               /\ ~(i > 1 /\ content[i] = "json"
                                          /\ content[i - 1] = FENCE))
    IN [n \in 1..Len(kept) |-> content[kept[n]]]

\* re.search(r'```json\s*(.*?)\s*```', content, re.DOTALL): the leftmost
\* ```json that a ``` follows, and group(1), what lies between it and the
\* first such ```, without the whitespace around it (.*? is lazy)
SearchJsonFence(content) ==
    LET n == Len(content)
        closes(i) == {j \in (i + 2)..n : content[j] = FENCE}
        starts == {i \in 1..(n - 2) :
                        /\ content[i] = FENCE
                        /\ content[i + 1] = "json"
                        /\ closes(i) # {}}
    IN IF starts = {} THEN NoMatch
       ELSE LET i == CHOOSE x \in starts : \A y \in starts : x <= y
                j == CHOOSE x \in closes(i) : \A y \in closes(i) : x <= y
                lo == SkipWs(SubSeq(content, 1, j - 1), i + 2)
            IN [found |-> TRUE, lo |-> lo,
                hi |-> IF lo >= j THEN lo - 1 ELSE RSkipWs(content, j - 1)]

-----------------------------------------------------------------------------
(* SecurityGuideAgent: the JSON-returning generator methods.  `run` is     *)
(* what self.agent.run(prompt) did: it raised, or it returned a response   *)
(* whose content is run.content.                                           *)

\* an exception leaves the method
Raised == <<"raise", "exception">>

\* all(key in option for key in ["text", "is_correct"]) is True.  When it
\* is False the method returns None; when `in` raises TypeError the
\* handler of the method returns None as well.
OptionHasKeys(option) ==
    /\ SupportsIn(option)
    /\ Contains(option, K("text"))
    /\ Contains(option, K("is_correct"))

\* the checks made on one decision point let the loop go on: the required
\* keys are in it, point["options"] is a list of at least 2 options, each
\* with its keys.  A point that is no dict either fails `in` or raises
\* TypeError on point["options"]; the method returns None in both cases.
PointAccepted(point, required) ==
    /\ SupportsIn(point)
    /\ \A key \in required : Contains(point, key)
    /\ IsDict(point)
    /\ IsList(point[2][K("options")])
    /\ Len(point[2][K("options")][2]) >= 2
    /\ \A i \in 1..Len(point[2][K("options")][2]) :
            OptionHasKeys(point[2][K("options")][2][i])

\* Variant of DecisionPointsAccepted: the loop stops after the first point
FirstPointAccepted(decision_points) ==
    /\ IsList(decision_points)
    /\ Len(decision_points[2]) >= 1
    /\ PointAccepted(decision_points[2][1], {K("question"), K("options")})

\* the structure validation of generate_decision_points reaches its
\* `return decision_points`
DecisionPointsAccepted(decision_points) ==
    /\ IsList(decision_points)
    /\ Len(decision_points[2]) >= 1
    /\ \A i \in 1..Len(decision_points[2]) :
            PointAccepted(decision_points[2][i], {K("question"), K("options")})

\* lines 113-127: the text handed to json.loads, and what it yields
ExtractDecisionPoints(content) ==
    LET stripped == Strip(content)
        json_match == SearchArray(stripped)
    IN IF json_match.found
       THEN Loads(SubSeq(stripped, json_match.lo, json_match.hi))
       ELSE Loads(Strip(SubFences(stripped)))

\* Variant of generate_decision_points: json.JSONDecodeError is not caught
generate_decision_points_uncaught(run) ==
    IF run.raised
    THEN Raised
    ELSE LET loaded == ExtractDecisionPoints(run.content)
         IN IF ~loaded.ok THEN Raised
            ELSE IF DecisionPointsAccepted(loaded.val) THEN loaded.val
            ELSE None

generate_decision_points(run) ==
    IF run.raised
    THEN \* the handler prints response.content, and `response` is unbound
         Raised
    ELSE LET loaded == ExtractDecisionPoints(run.content)
         IN IF loaded.ok /\ DecisionPointsAccepted(loaded.val)
            THEN loaded.val
            ELSE None

DecisionPointAccepted(decision_point) ==
    PointAccepted(decision_point,
                  {K("question"), K("options"), K("html_content")})

\* lines 181-190
ExtractDecisionPoint(content) == Loads(Strip(SubFences(Strip(content))))

generate_decision_point(run) ==
    IF run.raised
    THEN Raised
    ELSE LET loaded == ExtractDecisionPoint(run.content)
         IN IF loaded.ok /\ DecisionPointAccepted(loaded.val)
            THEN loaded.val
            ELSE None

\* the checks made on one question of an assessment raise nothing:
\* "question" and "options" are in it, question["options"] is a list of
\* at least 2 entries and opt.get works on each of them
QuestionAccepted(question) ==
    /\ SupportsIn(question)
    /\ Contains(question, K("question"))
    /\ Contains(question, K("options"))
    /\ IsDict(question)
    /\ IsList(question[2][K("options")])
    /\ Len(question[2][K("options")][2]) >= 2
    /\ \A i \in 1..Len(question[2][K("options")][2]) :
            IsDict(question[2][K("options")][2][i])

\* opt.get("is_correct", False)
FlaggedCorrect(opt) ==
    K("is_correct") \in DOMAIN opt[2] /\ Truthy(opt[2][K("is_correct")])

\* Variant of RepairQuestion: no repair
NoRepair(question) == question

\* Variant of RepairQuestion: the last option is made correct, not the first
RepairLastOption(question) ==
    LET options == question[2][K("options")][2] IN
    IF \E i \in 1..Len(options) : FlaggedCorrect(options[i])
    THEN question
    ELSE JObj(DictSet(question[2], K("options"),
            JArr([options EXCEPT
                    ![Len(options)] = JObj(DictSet(options[Len(options)][2],
                                            K("is_correct"), JBool(TRUE)))])))

\* question["options"][0]["is_correct"] = True when no option is flagged
RepairQuestion(question) ==
    LET options == question[2][K("options")][2] IN
    IF \E i \in 1..Len(options) : FlaggedCorrect(options[i])
    THEN question
    ELSE JObj(DictSet(question[2], K("options"),
            JArr([options EXCEPT
                    ![1] = JObj(DictSet(options[1][2], K("is_correct"),
                                        JBool(TRUE)))])))

AssessmentAccepted(assessment) ==
    /\ SupportsIn(assessment)
    /\ Contains(assessment, K("questions"))
    /\ IsDict(assessment)
    /\ IsList(assessment[2][K("questions")])
    /\ Len(assessment[2][K("questions")][2]) >= 1
    /\ \A i \in 1..Len(assessment[2][K("questions")][2]) :
            QuestionAccepted(assessment[2][K("questions")][2][i])

RepairAssessment(assessment) ==
    LET questions == assessment[2][K("questions")][2] IN
    JObj(DictSet(assessment[2], K("questions"),
        JArr([i \in 1..Len(questions) |-> RepairQuestion(questions[i])])))

Option(text, is_correct) ==
    JObj([x \in {K("text"), K("is_correct")} |->
            IF x = K("text") THEN W(text) ELSE JBool(is_correct)])

Question(question, options, explanation) ==
    JObj([x \in {K("question"), K("options"), K("explanation")} |->
            CASE x = K("question") -> JStr(question)
              [] x = K("options") -> JArr(options)
              [] OTHER -> JStr(explanation)])

\* Variant of FallbackAssessment: the first question names the scenario
\* title as well
FallbackNamingTitle(scenario_title, scenario_domain, user_industry, user_role, experience_level, num_questions) ==
    JObj([x \in {K("questions")} |-> JArr(<<
        Question(
            <<"What is the most important first step when dealing with a ",
              scenario_domain, " threat as in ", scenario_title, "?">>,
            <<Option("Immediately shut down all systems", FALSE),
              Option("Report the incident to your security team", TRUE)>>,
            <<"Report it to your security team.">>),
        Question(
            <<"Which of the following is a best practice for ",
              scenario_domain, " prevention?">>,
            <<Option("Only check emails during certain hours", FALSE),
              Option("Regularly update software and security patches", TRUE)>>,
            <<"Regular updates ensure that known vulnerabilities are patched.">>),
        Question(
            <<"Why is security awareness training important?">>,
            <<Option("It's only important for IT staff", FALSE),
              Option("It helps all employees recognize and respond to threats", TRUE)>>,
            <<"Human error is often the weakest link in security.">>)
    >>)])

\* the assessment returned by the handler of generate_knowledge_assessment
FallbackAssessment(scenario_title, scenario_domain, user_industry, user_role, experience_level, num_questions) ==
    JObj([x \in {K("questions")} |-> JArr(<<
        Question(
            <<"What is the most important first step when dealing with a ",
              scenario_domain, " threat?">>,
            <<Option("Immediately shut down all systems", FALSE),
              Option("Report the incident to your security team", TRUE),
              Option("Try to fix the issue yourself", FALSE),
              Option("Ignore it if it doesn't affect your work", FALSE)>>,
            <<"When facing a ", scenario_domain,
              " threat, the first step should always be to report it to your security team who have the expertise to handle it properly.">>),
        Question(
            <<"Which of the following is a best practice for ",
              scenario_domain, " prevention?">>,
            <<Option("Only check emails during certain hours", FALSE),
              Option("Share security responsibilities with colleagues", FALSE),
              Option("Regularly update software and security patches", TRUE),
              Option("Use the same password for all accounts", FALSE)>>,
            <<"Regular updates ensure that known vulnerabilities are patched, significantly reducing the risk of security breaches.">>),
        Question(
            <<"Why is security awareness training important?">>,
            <<Option("It's only important for IT staff", FALSE),
              Option("It helps all employees recognize and respond to threats", TRUE),
              Option("It's a regulatory requirement but has little practical value", FALSE),
              Option("It only matters for large enterprises", FALSE)>>,
            <<"Security awareness training is crucial for all employees as human error is often the weakest link in security. Well-trained employees can serve as an effective first line of defense.">>)
    >>)])

\* lines 323-337
ExtractAssessment(content) ==
    LET stripped == Strip(content)
        direct == Loads(stripped)
        json_match == SearchJsonFence(stripped)
    IN IF direct.ok THEN direct
       ELSE IF json_match.found
       THEN Loads(SubSeq(stripped, json_match.lo, json_match.hi))
       ELSE Fail

generate_knowledge_assessment(run, scenario_title, scenario_domain, user_industry, user_role, experience_level, num_questions) ==
    LET fallback == FallbackAssessment(scenario_title, scenario_domain,
                        user_industry, user_role, experience_level,
                        num_questions)
    IN IF run.raised THEN fallback
       ELSE LET loaded == ExtractAssessment(run.content)
            IN IF loaded.ok /\ AssessmentAccepted(loaded.val)
               THEN RepairAssessment(loaded.val)
               ELSE fallback

-----------------------------------------------------------------------------
(* The remote model: the responses it may send.  A response is a JSON      *)
(* value written out as text and laid out in one of Layouts, or a short    *)
(* run of arbitrary tokens.                                                *)

KeyOrder == <<K("questions"), K("question"), K("options"), K("text"),
              K("is_correct"), K("html_content"), K("explanation")>>

RECURSIVE Ser(_), SerElems(_, _), SerMembers(_, _, _)

\* the text of a JSON value, a space after each comma
Ser(x) ==
    CASE x[1] = "str" -> <<QUOTE>> \o x[2] \o <<QUOTE>>
      [] x[1] = "bool" -> IF x[2] THEN <<"true">> ELSE <<"false">>
      [] x[1] = "num" -> IF x[2] = 0 THEN <<"0">> ELSE <<"1">>
      [] x[1] = "arr" -> <<"[">> \o SerElems(x[2], 1) \o <<"]">>
      [] x[1] = "obj" ->
            <<"{">>
            \o SerMembers(x[2], SelectSeq(KeyOrder, LAMBDA key : key \in DOMAIN x[2]), 1)
            \o <<"}">>
      [] OTHER -> <<"null">>

SerElems(s, i) ==
    IF i > Len(s) THEN <<>>
    ELSE (IF i > 1 THEN <<",", " ">> ELSE <<>>) \o Ser(s[i]) \o SerElems(s, i + 1)

SerMembers(f, keys, i) ==
    IF i > Len(keys) THEN <<>>
    ELSE (IF i > 1 THEN <<",", " ">> ELSE <<>>)
         \o <<QUOTE>> \o keys[i] \o <<QUOTE, ":">> \o Ser(f[keys[i]])
         \o SerMembers(f, keys, i + 1)

\* prose before the payload; it cites a source in square brackets
Preamble == <<"Sure!", " ", "Here", " ", "it", " ", "is", " ", "[", "1", "]", ":", "\n">>
\* prose after the payload
Commentary == <<"\n", "Hope", " ", "this", " ", "helps!">>

Layouts == {"bare", "fenced", "prose_fenced", "plain_fence", "trailing",
            "fenced_trailing"}

Layout(form, text) ==
    CASE form = "bare" -> text
      [] form = "fenced" -> <<FENCE, "json", "\n">> \o text \o <<"\n", FENCE>>
      [] form = "prose_fenced" ->
            Preamble \o <<FENCE, "json", "\n">> \o text \o <<"\n", FENCE>>
      [] form = "plain_fence" -> <<FENCE, "\n">> \o text \o <<"\n", FENCE>>
      [] form = "trailing" -> text \o Commentary
      [] form = "fenced_trailing" ->
            <<FENCE, "json", "\n">> \o text \o <<"\n", FENCE>> \o Commentary
      [] OTHER -> text

\* An option as the prompts ask for it: its text and its flag, T for true
\* and F for false
PlainOptions == {"T", "F"}

\* Other options: without its flag, without its text, with the number 1
\* for flag, a string that holds the words text and is_correct, a number
OddOptions == {"noflag", "notext", "one", "words", "num"}

MkOption(kind) ==
    CASE kind = "T" -> Option("A", TRUE)
      [] kind = "F" -> Option("B", FALSE)
      [] kind = "noflag" -> JObj([x \in {K("text")} |-> W("C")])
      [] kind = "notext" -> JObj([x \in {K("is_correct")} |-> JBool(FALSE)])
      [] kind = "one" ->
            JObj([x \in {K("text"), K("is_correct")} |->
                    IF x = K("text") THEN W("D") ELSE JNum(1)])
      [] kind = "words" -> JStr(<<"text", " ", "is_correct">>)
      [] OTHER -> JNum(1)

\* lists of at most MaxOptions options: plain options, or one odd option
\* among copies of one plain option
OptionLists ==
    {<<>>} \cup
    UNION {[1..n -> PlainOptions]
           \cup {[i \in 1..n |-> IF i = p THEN o ELSE b] :
                    p \in 1..n, o \in OddOptions, b \in PlainOptions} :
           n \in 1..MaxOptions}

\* The `options` of a point: a list of options, no list, or nothing
OptionsKinds ==
    {[t |-> "list", l |-> l] : l \in OptionLists}
    \cup {[t |-> "notlist", l |-> <<>>], [t |-> "absent", l |-> <<>>]}

\* A decision point or a question: with or without `question`, with or
\* without `html_content`, and its `options`
PointKinds == [q : BOOLEAN, h : BOOLEAN, o : OptionsKinds]

QuestionNames == <<"Q1", "Q2", "Q3", "Q4">>

MkPoint(d, i) ==
    LET keys == (IF d.q THEN {K("question")} ELSE {})
                \cup (IF d.h THEN {K("html_content")} ELSE {})
                \cup (IF d.o.t = "absent" THEN {} ELSE {K("options")})
    IN JObj([x \in keys |->
            CASE x = K("question") -> W(QuestionNames[i])
              [] x = K("html_content") -> JStr(<<"<h3>", QuestionNames[i], "</h3>">>)
              [] OTHER -> IF d.o.t = "notlist" THEN W("none")
                          ELSE JArr([n \in 1..Len(d.o.l) |-> MkOption(d.o.l[n])])])

\* the points that go with any other point in a list: well-formed, one
\* with a correct option and one without
Companions ==
    {[q |-> TRUE, h |-> FALSE, o |-> [t |-> "list", l |-> l]] :
        l \in {<<"F", "T">>, <<"F", "F">>}}

\* lists of at most MaxPoints points: any one point, and beside it copies
\* of one of Companions
PointLists ==
    {<<>>} \cup
    UNION {{[i \in 1..n |-> IF i = p THEN d ELSE c] :
                p \in 1..n,
                d \in {x \in PointKinds : ~x.h},
                c \in Companions} : n \in 1..MaxPoints}

MkList(l) == JArr([i \in 1..Len(l) |-> MkPoint(l[i], i)])

\* lists of one well-formed point
CompanionLists == {<<c>> : c \in Companions}

\* prose between two payloads of one response
Between == <<"\n", "Or", " ", "this", " ", "one:", "\n">>

MkAssessment(l) == JObj([x \in {K("questions")} |-> MkList(l)])

\* other JSON values
Oddities ==
    {None, JBool(TRUE), JNum(1), W("questions"), JObj(EmptyDict),
     JArr(<<JNum(1)>>),
     JArr(<<W("question"), W("options"), W("html_content")>>),
     JArr(<<JArr(<<W("question"), W("options")>>)>>),
     JObj([x \in {K("questions")} |-> W("none")]),
     JObj([x \in {K("questions")} |-> JArr(<<JNum(1)>>)]),
     JObj([x \in {K("questions")} |-> JArr(<<JStr(<<"question", " ", "options">>)>>)]),
     JObj([x \in {K("question")} |-> W("Q1")])}

GarbageTokens == {"oops", "[", "]", "{", "}", QUOTE, FENCE, " "}

Garbage == UNION {[1..n -> GarbageTokens] : n \in 0..MaxGarbage}

Payloads ==
    {[kind |-> "points", form |-> f, val |-> MkList(l)] :
        f \in Layouts, l \in PointLists}
    \cup {[kind |-> "point", form |-> f, val |-> MkPoint(d, 1)] :
        f \in Layouts, d \in PointKinds}
    \cup {[kind |-> "assessment", form |-> f, val |-> MkAssessment(l)] :
        f \in Layouts, l \in PointLists}
    \cup {[kind |-> "two_lists", form |-> f, val |-> JArr(<<MkList(a), MkList(b)>>)] :
        f \in {"bare", "fenced"}, a \in CompanionLists, b \in CompanionLists}
    \cup {[kind |-> "other", form |-> f, val |-> x] :
        f \in {"bare", "fenced"}, x \in Oddities}
    \cup {[kind |-> "garbage", form |-> "bare", val |-> JStr(g)] : g \in Garbage}
    \cup {[kind |-> "raise", form |-> "bare", val |-> None]}

\* what self.agent.run does when the remote model sends payload p; a
\* payload of two lists is sent as the first list, prose, and the second
Run(p) ==
    CASE p.kind = "raise" -> [raised |-> TRUE, content |-> <<>>]
      [] p.kind = "garbage" -> [raised |-> FALSE, content |-> p.val[2]]
      [] p.kind = "two_lists" ->
            [raised |-> FALSE,
             content |-> Layout(p.form, Ser(p.val[2][1])) \o Between
                         \o Layout(p.form, Ser(p.val[2][2]))]
      [] OTHER -> [raised |-> FALSE, content |-> Layout(p.form, Ser(p.val))]

Domains == {"phishing", "ransomware"}

\* the arguments of a generator call
ArgChoices ==
    {[scenario_title |-> "The Suspicious Email", scenario_domain |-> "phishing",
      user_industry |-> "technology", user_role |-> "it professional",
      experience_level |-> "beginner", num_questions |-> 3],
     [scenario_title |-> "The Phish", scenario_domain |-> "phishing",
      user_industry |-> "healthcare", user_role |-> "nurse",
      experience_level |-> "advanced", num_questions |-> 5],
     [scenario_title |-> "Locked Out", scenario_domain |-> "ransomware",
      user_industry |-> "technology", user_role |-> "it professional",
      experience_level |-> "beginner", num_questions |-> 3]}

NoArgs ==
    [scenario_title |-> "", scenario_domain |-> "", user_industry |-> "",
     user_role |-> "", experience_level |-> "", num_questions |-> 0]

-----------------------------------------------------------------------------
(* The agent called on one response *)

IdleProfile == <<>>
IdleSession == <<>>

InitAgent ==
    /\ payload \in Payloads
    /\ response = Run(payload)
    /\ call = "none"
    /\ args = NoArgs
    /\ result = None
    /\ profile = IdleProfile
    /\ file = <<>>
    /\ reads = 0
    /\ recorded = <<>>
    /\ session = IdleSession
    /\ sent = <<>>

CallDecisionPoints ==
    /\ call = "none"
    /\ call' = "generate_decision_points"
    /\ result' = generate_decision_points(response)
    /\ UNCHANGED <<sent, response, payload, args, profile, file, reads, recorded,
                   session>>

CallDecisionPoint ==
    /\ call = "none"
    /\ call' = "generate_decision_point"
    /\ result' = generate_decision_point(response)
    /\ UNCHANGED <<sent, response, payload, args, profile, file, reads, recorded,
                   session>>

CallKnowledgeAssessment ==
    /\ call = "none"
    /\ call' = "generate_knowledge_assessment"
    /\ \E a \in ArgChoices :
        /\ args' = a
        /\ result' = generate_knowledge_assessment(response, a.scenario_title,
                        a.scenario_domain, a.user_industry, a.user_role,
                        a.experience_level, a.num_questions)
    /\ UNCHANGED <<sent, response, payload, profile, file, reads, recorded, session>>

NextAgent == CallDecisionPoints \/ CallDecisionPoint \/ CallKnowledgeAssessment

SpecAgent == InitAgent /\ [][NextAgent]_vars

-----------------------------------------------------------------------------
(* Properties of the generator methods (checked under SpecAgent) *)

Returned == call # "none" /\ result # Raised

\* no run of tokens of the text is a JSON document
NoJson(text) ==
    \A i \in 1..Len(text) : \A j \in i..Len(text) : ~Loads(SubSeq(text, i, j)).ok

HasKey(x, word) == IsDict(x) /\ K(word) \in DOMAIN x[2]

Field(x, word) == x[2][K(word)]

\* an option flagged correct: its is_correct is true, or another value
\* that counts as true
Flagged(option) ==
    HasKey(option, "is_correct") /\ Truthy(Field(option, "is_correct"))

\* x has a list under `options`, with at least `least` entries
HasOptions(x, least) ==
    /\ HasKey(x, "options")
    /\ IsList(Field(x, "options"))
    /\ Len(Field(x, "options")[2]) >= least

SomeCorrect(x) ==
    \E i \in 1..Len(Field(x, "options")[2]) : Flagged(Field(x, "options")[2][i])

\* every option of x is an object
OptionsAreObjects(x) ==
    \A i \in 1..Len(Field(x, "options")[2]) : IsDict(Field(x, "options")[2][i])

\* an option that is an object without `text` or without `is_correct`
OptionLacksKey(option) ==
    IsDict(option) /\ (~HasKey(option, "text") \/ ~HasKey(option, "is_correct"))

\* `text` or `is_correct` is not in the option, as Python tests it: no key
\* of an object, no element of an array, no part of a string, and nothing
\* is in a number, a boolean or null
OptionLacksWord(option) ==
    \/ OptionLacksKey(option)
    \/ option[1] \in {"null", "bool", "num"}
    \/ /\ option[1] \in {"str", "arr"}
       /\ ~(Contains(option, K("text")) /\ Contains(option, K("is_correct")))

\* a decision point as the decision-point schema wants it
PointInSchema(x) ==
    /\ HasKey(x, "question")
    /\ HasOptions(x, 2)
    /\ \A i \in 1..Len(Field(x, "options")[2]) :
            /\ HasKey(Field(x, "options")[2][i], "text")
            /\ HasKey(Field(x, "options")[2][i], "is_correct")

\* C1: a response with no parseable JSON at all makes
\* generate_decision_points and generate_decision_point return None, and
\* nothing is raised.
C1_UnparseableReturnsNone ==
    (/\ call \in {"generate_decision_points", "generate_decision_point"}
     /\ payload.kind = "garbage"
     /\ NoJson(response.content))
    => result = None

C1_Witness ==
    /\ call = "generate_decision_points"
    /\ payload.kind = "garbage"
    /\ Len(response.content) = MaxGarbage
    /\ response.content[1] = "["
    /\ response.content[2] = "{"
    /\ NoJson(response.content)
    /\ result = None

\* the responses from which generate_knowledge_assessment extracts the
\* payload: the whole text is the payload, or it stands in a ```json fence
AssessmentLayouts == {"bare", "fenced", "prose_fenced", "fenced_trailing"}

\* a question without text, without an options list, or with fewer than 2
\* options
QuestionDefect(q) == ~HasKey(q, "question") \/ ~HasOptions(q, 2)

\* an assessment with missing, non-list or empty `questions`, or with a
\* defective question
AssessmentDefect(x) ==
    \/ ~HasKey(x, "questions")
    \/ ~IsList(Field(x, "questions"))
    \/ Len(Field(x, "questions")[2]) < 1
    \/ \E i \in 1..Len(Field(x, "questions")[2]) :
            QuestionDefect(Field(x, "questions")[2][i])

\* an assessment that passes the structural validation: no defect, and
\* options that are objects
AssessmentValid(x) ==
    /\ ~AssessmentDefect(x)
    /\ \A i \in 1..Len(Field(x, "questions")[2]) :
            OptionsAreObjects(Field(x, "questions")[2][i])

\* extraction or validation of the assessment fails
AssessmentFails ==
    /\ payload.kind # "raise"
    /\ \/ payload.kind = "garbage"
       \/ payload.form \notin AssessmentLayouts
       \/ AssessmentDefect(payload.val)

\* C2: when extraction or validation of the knowledge assessment fails,
\* generate_knowledge_assessment returns a 3-question object that is the
\* same whatever the title, industry, role, experience level and number of
\* questions of the call: it is the one returned for the same domain when
\* all of those are blank.
C2_FailureReturnsFallback ==
    (call = "generate_knowledge_assessment" /\ AssessmentFails)
    => /\ HasKey(result, "questions")
       /\ IsList(Field(result, "questions"))
       /\ Len(Field(result, "questions")[2]) = 3
       /\ result = generate_knowledge_assessment(
                        [raised |-> FALSE, content |-> <<>>],
                        "", args.scenario_domain, "", "", "", 0)

C2_Witness ==
    /\ call = "generate_knowledge_assessment"
    /\ payload.kind = "assessment"
    /\ payload.form = "prose_fenced"
    /\ Len(Field(payload.val, "questions")[2]) = 2
    /\ ~QuestionDefect(Field(payload.val, "questions")[2][1])
    /\ HasOptions(Field(payload.val, "questions")[2][2], 1)
    /\ ~HasOptions(Field(payload.val, "questions")[2][2], 2)
    /\ args.scenario_title = "The Phish"
    /\ Len(Field(result, "questions")[2]) = 3

\* question r is question q with is_correct = true put on its first
\* option and nothing else changed
RepairedFrom(r, q) ==
    /\ IsDict(r)
    /\ DOMAIN r[2] = DOMAIN q[2]
    /\ \A key \in DOMAIN q[2] : key # K("options") => r[2][key] = q[2][key]
    /\ IsList(Field(r, "options"))
    /\ Len(Field(r, "options")[2]) = Len(Field(q, "options")[2])
    /\ \A i \in 2..Len(Field(q, "options")[2]) :
            Field(r, "options")[2][i] = Field(q, "options")[2][i]
    /\ LET r1 == Field(r, "options")[2][1]
           q1 == Field(q, "options")[2][1]
       IN /\ IsDict(r1)
          /\ DOMAIN r1[2] = DOMAIN q1[2] \cup {K("is_correct")}
          /\ Field(r1, "is_correct") = JBool(TRUE)
          /\ \A key \in DOMAIN q1[2] :
                key # K("is_correct") => r1[2][key] = q1[2][key]

\* C3: for an assessment that passes the structural validation, the
\* returned assessment has the same questions in the same number and
\* order; a question with a correct option is returned unchanged, and a
\* question with none is returned with its first option made correct and
\* nothing else changed.
C3_OnlyRepairChanges ==
    (/\ call = "generate_knowledge_assessment"
     /\ payload.kind = "assessment"
     /\ payload.form \in AssessmentLayouts
     /\ AssessmentValid(payload.val))
    => /\ IsDict(result)
       /\ DOMAIN result[2] = {K("questions")}
       /\ IsList(Field(result, "questions"))
       /\ Len(Field(result, "questions")[2]) = Len(Field(payload.val, "questions")[2])
       /\ \A i \in 1..Len(Field(payload.val, "questions")[2]) :
            LET q == Field(payload.val, "questions")[2][i]
                r == Field(result, "questions")[2][i]
            IN IF SomeCorrect(q) THEN r = q ELSE RepairedFrom(r, q)

C3_Witness ==
    /\ call = "generate_knowledge_assessment"
    /\ payload.kind = "assessment"
    /\ payload.form = "fenced"
    /\ AssessmentValid(payload.val)
    /\ Len(Field(payload.val, "questions")[2]) = 2
    /\ SomeCorrect(Field(payload.val, "questions")[2][1])
    /\ ~SomeCorrect(Field(payload.val, "questions")[2][2])
    /\ result # payload.val
    /\ SomeCorrect(Field(result, "questions")[2][2])

\* the decision points a call returned: the elements of the list of
\* generate_decision_points, the one point of generate_decision_point
ReturnedPoints ==
    IF call = "generate_decision_points" /\ Returned /\ IsList(result)
    THEN {result[2][i] : i \in 1..Len(result[2])}
    ELSE IF call = "generate_decision_point" /\ Returned /\ IsDict(result)
    THEN {result}
    ELSE {}

\* C4 (as claimed): every decision point returned by
\* generate_decision_points or generate_decision_point has at least 2
\* options and at least 1 option flagged correct; a point whose options
\* are all flagged false is answered with None.
C4_ReturnedPointHasCorrectOption ==
    \A point \in ReturnedPoints : HasOptions(point, 2) /\ SomeCorrect(point)

\* C5: every object returned by generate_knowledge_assessment has at
\* least 1 question, and each question has its text, at least 2 options
\* and at least 1 option flagged correct.
C5_AssessmentWellFormed ==
    call = "generate_knowledge_assessment"
    => /\ HasKey(result, "questions")
       /\ IsList(Field(result, "questions"))
       /\ Len(Field(result, "questions")[2]) >= 1
       /\ \A i \in 1..Len(Field(result, "questions")[2]) :
            LET q == Field(result, "questions")[2][i]
            IN HasKey(q, "question") /\ HasOptions(q, 2) /\ SomeCorrect(q)

C5_Witness ==
    /\ call = "generate_knowledge_assessment"
    /\ payload.kind = "assessment"
    /\ payload.form = "bare"
    /\ AssessmentValid(payload.val)
    /\ \A i \in 1..Len(Field(payload.val, "questions")[2]) :
            ~SomeCorrect(Field(payload.val, "questions")[2][i])
    /\ Len(Field(result, "questions")[2]) = MaxPoints

\* the layouts C6 is about: the array alone, or in a ```json fence, with
\* or without prose before it
ArrayLayouts == {"bare", "fenced", "prose_fenced"}

\* C6: a response that is a JSON array of at least one decision point in
\* the schema, alone or in a ```json fence preceded by prose, makes
\* generate_decision_points return that array.
C6_ValidArrayReturned ==
    (/\ call = "generate_decision_points"
     /\ payload.kind = "points"
     /\ payload.form \in ArrayLayouts
     /\ Len(payload.val[2]) >= 1
     /\ \A i \in 1..Len(payload.val[2]) : PointInSchema(payload.val[2][i]))
    => result = payload.val

C6_Witness ==
    /\ call = "generate_decision_points"
    /\ payload.kind = "points"
    /\ payload.form = "prose_fenced"
    /\ Len(payload.val[2]) = 1
    /\ PointInSchema(payload.val[2][1])
    /\ Field(payload.val[2][1], "options")[2] = <<Option("A", TRUE), Option("B", FALSE)>>
    /\ IsList(result)
    /\ Len(result[2]) = 1

\* a decision point the rejection policy names: without `question` or
\* `options`, without one of the other keys in `more`, with options that
\* are no list or fewer than 2, or with an option lacking `text` or
\* `is_correct`
PointDefect(x, more) ==
    \/ ~HasKey(x, "question")
    \/ \E word \in more : ~HasKey(x, word)
    \/ ~HasOptions(x, 2)
    \/ \E i \in 1..Len(Field(x, "options")[2]) :
            OptionLacksWord(Field(x, "options")[2][i])

C8_OptionKeysRequired ==
    (/\ call = "generate_knowledge_assessment"
     /\ payload.kind = "assessment"
     /\ payload.form \in AssessmentLayouts
     /\ HasKey(payload.val, "questions")
     /\ \E i \in 1..Len(Field(payload.val, "questions")[2]) :
            LET q == Field(payload.val, "questions")[2][i]
            IN HasOptions(q, 0)
               /\ \E n \in 1..Len(Field(q, "options")[2]) :
                    OptionLacksKey(Field(q, "options")[2][n]))
    => result = FallbackAssessment(args.scenario_title, args.scenario_domain,
                    args.user_industry, args.user_role, args.experience_level,
                    args.num_questions)

-----------------------------------------------------------------------------
(* UserProfile (src/user_profile.py).  The profile document is a record;   *)
(* created_at, last_updated and completed_at hold datetime.now() and are   *)
(* left out.  A list of Python is a sequence, None is the string "None".   *)
(* A skill level is a number of 600ths of a level: the levels that         *)
(* record_scenario_completion stores are whole, and what the summary page  *)
(* adds for an assessment of 3, 4, 5 or 6 questions is a whole number of   *)
(* 600ths.                                                                 *)

NoScenario == "None"

\* the level n
Level(n) == n * 600

Skills == {"phishing_awareness", "ransomware_prevention",
           "social_engineering_defense", "data_protection",
           "network_security", "incident_response", "password_management",
           "secure_communication"}

\* self.profile as __init__ builds it
DefaultProfile ==
    [personal_info |->
        [name |-> "", email |-> "", industry |-> "", role |-> "",
         experience_level |-> "beginner"],
     progress |->
        [completed_scenarios |-> <<>>,
         current_scenario |-> NoScenario,
         skill_levels |-> [s \in Skills |-> 0],
         achievements |-> <<>>,
         total_points |-> 0],
     preferences |->
        [learning_style |-> "narrative", difficulty |-> "adaptive",
         session_duration |-> 15],
     assessment |->
        [knowledge_gaps |-> <<>>, strengths |-> <<>>,
         recommended_focus_areas |-> <<>>]]

\* x in seq
InSeq(x, seq) == \E i \in 1..Len(seq) : seq[i] = x

Min(a, b) == IF a < b THEN a ELSE b
Max(a, b) == IF a > b THEN a ELSE b

\* json.dump(self.profile, f): the file holds the whole document
save(self) == <<self>>

\* for key, value in kwargs.items(): a key of personal_info gets the value,
\* any other key is skipped
update_personal_info(self, kwargs) ==
    [self EXCEPT !.personal_info =
        [key \in DOMAIN self.personal_info |->
            IF key \in DOMAIN kwargs THEN kwargs[key]
            ELSE self.personal_info[key]]]

\* the same on preferences
update_preferences(self, kwargs) ==
    [self EXCEPT !.preferences =
        [key \in DOMAIN self.preferences |->
            IF key \in DOMAIN kwargs THEN kwargs[key]
            ELSE self.preferences[key]]]

set_current_scenario(self, scenario_id) ==
    [self EXCEPT !.progress.current_scenario = scenario_id]

\* lines 127-134: the completion record is appended, current_scenario reset
AppendCompletion(self, scenario_id, performance_data) ==
    [self EXCEPT
        !.progress.completed_scenarios =
            Append(@, [scenario_id |-> scenario_id,
                       performance |-> performance_data]),
        !.progress.current_scenario = NoScenario]

\* Variant of ApplySkillImpacts: the new level is stored as it is
ApplySkillImpactsUnclamped(self, performance_data) ==
    [self EXCEPT !.progress.skill_levels =
        [skill \in DOMAIN @ |->
            IF skill \in DOMAIN performance_data.skill_impacts
            THEN @[skill] + Level(performance_data.skill_impacts[skill])
            ELSE @[skill]]]

\* lines 137-141: each impact on a skill of skill_levels moves its level,
\* kept within 0..10; a missing skill_impacts is the empty mapping here
ApplySkillImpacts(self, performance_data) ==
    [self EXCEPT !.progress.skill_levels =
        [skill \in DOMAIN @ |->
            IF skill \in DOMAIN performance_data.skill_impacts
            THEN Max(0, Min(Level(10),
                            @[skill] + Level(performance_data.skill_impacts[skill])))
            ELSE @[skill]]]

\* Variant of AddPoints: total_points = points_earned, not +=
SetPoints(self, performance_data) ==
    IF performance_data.has_points
    THEN [self EXCEPT !.progress.total_points = performance_data.points_earned]
    ELSE self

\* lines 144-145
AddPoints(self, performance_data) ==
    IF performance_data.has_points
    THEN [self EXCEPT !.progress.total_points = @ + performance_data.points_earned]
    ELSE self

RECURSIVE AppendNew(_, _, _)
\* for x in areas[i..]: if x not in seq: seq.append(x)
AppendNew(seq, areas, i) ==
    IF i > Len(areas) THEN seq
    ELSE AppendNew(IF InSeq(areas[i], seq) THEN seq ELSE Append(seq, areas[i]),
                   areas, i + 1)

\* Variant of _calculate_recommended_focus_areas: the last 3 of them
FocusOnLatestGaps(self) ==
    LET focus_areas ==
            SelectSeq(self.assessment.knowledge_gaps,
                      LAMBDA gap : ~InSeq(gap, self.assessment.strengths))
    IN [self EXCEPT !.assessment.recommended_focus_areas =
            SubSeq(focus_areas, Max(1, Len(focus_areas) - 2), Len(focus_areas))]

\* the gaps that are no strengths, at most the first 3 of them
_calculate_recommended_focus_areas(self) ==
    LET focus_areas ==
            SelectSeq(self.assessment.knowledge_gaps,
                      LAMBDA gap : ~InSeq(gap, self.assessment.strengths))
    IN [self EXCEPT !.assessment.recommended_focus_areas =
            SubSeq(focus_areas, 1, Min(3, Len(focus_areas)))]

\* performance_data["mistakes"] and ["correct_decisions"] are lists of
\* {"area": ...}, held here as the sequences of their areas; the summary
\* page passes a number as correct_decisions, and iterating over a number
\* other than 0 raises TypeError after the gaps were updated
_update_assessment(self, performance_data) ==
    LET gapped == [self EXCEPT !.assessment.knowledge_gaps =
                        AppendNew(@, performance_data.mistakes, 1)]
        correct == performance_data.correct_decisions
    IN IF correct.type = "int" /\ correct.count # 0
       THEN [profile |-> gapped, raised |-> TRUE]
       ELSE [profile |->
                _calculate_recommended_focus_areas(
                    [gapped EXCEPT !.assessment.strengths =
                        AppendNew(@, correct.areas, 1)]),
             raised |-> FALSE]

\* the method as a whole: the profile it leaves, whether it raised, and the
\* file: self.save() is reached only when nothing was raised
record_scenario_completion(self, saved, scenario_id, performance_data) ==
    LET updated == _update_assessment(
                        AddPoints(
                            ApplySkillImpacts(
                                AppendCompletion(self, scenario_id, performance_data),
                                performance_data),
                            performance_data),
                        performance_data)
    IN [profile |-> updated.profile,
        raised |-> updated.raised,
        file |-> IF updated.raised THEN saved ELSE save(updated.profile)]

\* self.profile["progress"]["skill_levels"].get(skill, 0)
get_skill_level(self, skill) ==
    IF skill \in DOMAIN self.progress.skill_levels
    THEN self.progress.skill_levels[skill]
    ELSE 0

RECURSIVE SumOver(_, _)
\* sum(f[x] for x in keys)
SumOver(f, keys) ==
    IF keys = {} THEN 0
    ELSE LET x == CHOOSE y \in keys : TRUE
         IN f[x] + SumOver(f, keys \ {x})

\* avg_skill = sum / len, compared with 3 and 7
get_overall_skill_level(self) ==
    LET skill_values == self.progress.skill_levels
        n == Cardinality(DOMAIN skill_values)
        total == SumOver(skill_values, DOMAIN skill_values)
    IN IF n = 0 THEN "beginner"
       ELSE IF total < Level(3) * n THEN "beginner"
       ELSE IF total < Level(7) * n THEN "intermediate"
       ELSE "advanced"

get_recommended_scenarios(self) == self.assessment.recommended_focus_areas

\* performance_data["correct_decisions"]: a list of areas, or a number
NoList == [type |-> "list", areas |-> <<>>, count |-> 0]
AreaList(areas) == [type |-> "list", areas |-> areas, count |-> 0]
Count(n) == [type |-> "int", areas |-> <<>>, count |-> n]

\* app.py, lines 887-894: the numbers (correct_decisions, total_decisions,
\* correct_count, questions), of at most 4 decisions and 3 or 5 questions,
\* for which the floating-point overall_score falls just below the whole
\* number it would be exactly (19.999999999999996 for 1 of 3 decisions
\* and no answer right)
FloatBelow ==
    {<<1, 3, 0, 3>>, <<1, 3, 0, 5>>, <<1, 3, 1, 5>>, <<2, 3, 0, 3>>,
     <<2, 3, 0, 5>>, <<2, 3, 1, 5>>, <<2, 3, 2, 5>>, <<2, 3, 3, 5>>}

\* app.py, lines 887-902: int(overall_score), where overall_score is
\* (correct_decisions / total_decisions) * 100 * 0.6 + score_percentage * 0.4
\* in floating point and score_percentage is (correct_count / questions)
\* * 100
PointsEarned(correct_decisions, total_decisions, correct_count, questions) ==
    (60 * correct_decisions * questions + 40 * correct_count * total_decisions)
        \div (total_decisions * questions)
    - (IF <<correct_decisions, total_decisions, correct_count, questions>>
            \in FloatBelow
       THEN 1 ELSE 0)

\* app.py, line 930: skill_improvement = (overall_score / 100) * 0.5, in
\* 600ths of a level; the error of the floating-point value, below
\* 1e-15 of a level, is left out
SkillImprovement(correct_decisions, total_decisions, correct_count, questions) ==
    (180 * correct_decisions * questions + 120 * correct_count * total_decisions)
        \div (total_decisions * questions)

\* app.py, line 915
SkillField(domain) ==
    IF domain # "social_engineering"
    THEN CASE domain = "phishing" -> "phishing_awareness"
           [] domain = "ransomware" -> "ransomware_awareness"
           [] domain = "data_protection" -> "data_protection_awareness"
           [] OTHER -> "network_security_awareness"
    ELSE "social_engineering_defense"

\* app.py, lines 887-908: what the summary page passes as performance_data;
\* title, domain, total_decisions and the two scores are left out
SummaryPerformance(correct_decisions, total_decisions, correct_count, questions) ==
    [has_points |-> TRUE,
     points_earned |-> PointsEarned(correct_decisions, total_decisions,
                                    correct_count, questions),
     skill_impacts |-> [skill \in {} |-> 0],
     mistakes |-> <<>>,
     correct_decisions |-> Count(correct_decisions)]

\* app.py, lines 929-934: new_skill = min(5, current_skill +
\* skill_improvement), stored under skill_field
RaiseSkill(self, skill_field, skill_improvement) ==
    [self EXCEPT !.progress.skill_levels =
        [skill \in (DOMAIN @) \cup {skill_field} |->
            IF skill = skill_field
            THEN Min(Level(5),
                     (IF skill \in DOMAIN @ THEN @[skill] ELSE 0) + skill_improvement)
            ELSE @[skill]]]

\* app.py, lines 884-940: the completion is recorded, then the skill of
\* the domain raised and the profile saved; an exception of either ends
\* the block in its handler, with scenario_recorded not set
RecordOnSummaryPage(self, saved, scenario_id, domain, correct_decisions, total_decisions, correct_count, questions) ==
    LET done == record_scenario_completion(self, saved, scenario_id,
                    SummaryPerformance(correct_decisions, total_decisions,
                                       correct_count, questions))
        raised == RaiseSkill(done.profile, SkillField(domain),
                    SkillImprovement(correct_decisions, total_decisions,
                                     correct_count, questions))
    IN IF done.raised
       THEN [profile |-> done.profile, file |-> done.file,
             scenario_recorded |-> FALSE]
       ELSE [profile |-> raised, file |-> save(raised),
             scenario_recorded |-> TRUE]

-----------------------------------------------------------------------------
(* One UserProfile, constructed when no file exists, and its callers *)

\* most completions recorded in one profile
MaxCompletions == 2
\* most read-only calls made on one profile
MaxReads == 1

NoImpacts == [skill \in {} |-> 0]

\* the calls of record_scenario_completion: the scenario id and the
\* performance data
CompletionChoices ==
    {[scenario_id |-> "phishing-1", has_points |-> TRUE, points_earned |-> 80,
      skill_impacts |-> [skill \in {"phishing_awareness"} |-> 6],
      mistakes |-> <<>>, correct_decisions |-> AreaList(<<"phishing">>)],
     [scenario_id |-> "ransomware-1", has_points |-> TRUE, points_earned |-> 80,
      skill_impacts |-> NoImpacts,
      mistakes |-> <<"backups", "phishing", "passwords", "wifi">>,
      correct_decisions |-> NoList],
     [scenario_id |-> "phishing-1", has_points |-> TRUE, points_earned |-> -20,
      skill_impacts |->
        [skill \in {"phishing_awareness", "cloud_security"} |->
            IF skill = "phishing_awareness" THEN -7 ELSE 3],
      mistakes |-> <<"phishing">>, correct_decisions |-> NoList],
     [scenario_id |-> "ransomware-1", has_points |-> FALSE, points_earned |-> 0,
      skill_impacts |-> [skill \in {"network_security"} |-> 6],
      mistakes |-> <<>>, correct_decisions |-> AreaList(<<"backups">>)]}

PersonalInfoChoices ==
    {[key \in {"name", "email", "industry", "role", "experience_level"} |->
        CASE key = "name" -> "Demo User"
          [] key = "email" -> "demo@example.com"
          [] key = "industry" -> "technology"
          [] key = "role" -> "it professional"
          [] OTHER -> "beginner"],
     [key \in {"name", "nickname"} |-> "Ana"]}

SkillChoices == {"phishing_awareness", "cloud_security"}

PreferenceChoices ==
    {[key \in {"difficulty", "theme"} |-> "easy"]}

\* what the summary page records: the scenario, the decisions that were
\* correct, the decisions, the answers that were right, the questions
SummaryChoices ==
    {[scenario_id |-> "phishing-1", domain |-> "phishing",
      correct_decisions |-> 0, total_decisions |-> 3,
      correct_count |-> 5, questions |-> 5],
     [scenario_id |-> "ransomware-1", domain |-> "ransomware",
      correct_decisions |-> 0, total_decisions |-> 1,
      correct_count |-> 2, questions |-> 3],
     [scenario_id |-> "phishing-1", domain |-> "phishing",
      correct_decisions |-> 2, total_decisions |-> 3,
      correct_count |-> 5, questions |-> 5]}

IdleResponse == [raised |-> FALSE, content |-> <<>>]
IdlePayload == [kind |-> "none", form |-> "bare", val |-> None]

InitProfile ==
    /\ profile = DefaultProfile
    /\ file = <<>>
    /\ reads = 0
    /\ recorded = <<>>
    /\ call = "none"
    /\ args = <<>>
    /\ result = None
    /\ response = IdleResponse
    /\ payload = IdlePayload
    /\ session = IdleSession
    /\ sent = <<>>

UpdatePersonalInfo ==
    \E kwargs \in PersonalInfoChoices :
        /\ profile' = update_personal_info(profile, kwargs)
        /\ file' = save(profile')
        /\ call' = "update_personal_info"
        /\ args' = <<kwargs>>
        /\ result' = None
        /\ UNCHANGED <<sent, response, payload, reads, recorded, session>>

UpdatePreferences ==
    \E kwargs \in PreferenceChoices :
        /\ profile' = update_preferences(profile, kwargs)
        /\ file' = save(profile')
        /\ call' = "update_preferences"
        /\ args' = <<kwargs>>
        /\ result' = None
        /\ UNCHANGED <<sent, response, payload, reads, recorded, session>>

SetCurrentScenario ==
    \E scenario_id \in {"phishing-1"} :
        /\ profile' = set_current_scenario(profile, scenario_id)
        /\ file' = save(profile')
        /\ call' = "set_current_scenario"
        /\ args' = <<scenario_id>>
        /\ result' = None
        /\ UNCHANGED <<sent, response, payload, reads, recorded, session>>

RecordScenarioCompletion ==
    /\ Len(profile.progress.completed_scenarios) < MaxCompletions
    /\ \E c \in CompletionChoices :
        LET performance_data ==
                [has_points |-> c.has_points, points_earned |-> c.points_earned,
                 skill_impacts |-> c.skill_impacts, mistakes |-> c.mistakes,
                 correct_decisions |-> c.correct_decisions]
            done == record_scenario_completion(profile, file, c.scenario_id,
                                               performance_data)
        IN /\ profile' = done.profile
           /\ file' = done.file
           /\ call' = "record_scenario_completion"
           /\ args' = <<c.scenario_id, performance_data>>
           /\ result' = IF done.raised THEN Raised ELSE None
           /\ recorded' = Append(recorded,
                            [performance |-> performance_data,
                             reads |-> reads,
                             points_before |-> profile.progress.total_points,
                             completed_before |->
                                Len(profile.progress.completed_scenarios)])
    /\ UNCHANGED <<sent, response, payload, reads, session>>

\* the summary page of the app shows the results of an assessment
SummaryPageRecords ==
    /\ Len(profile.progress.completed_scenarios) < MaxCompletions
    /\ \E c \in SummaryChoices :
        LET performance_data ==
                SummaryPerformance(c.correct_decisions, c.total_decisions,
                                   c.correct_count, c.questions)
            done == RecordOnSummaryPage(profile, file, c.scenario_id, c.domain,
                        c.correct_decisions, c.total_decisions,
                        c.correct_count, c.questions)
        IN /\ profile' = done.profile
           /\ file' = done.file
           /\ call' = "show_scenario_summary"
           /\ args' = <<c.scenario_id, performance_data>>
           /\ result' = JBool(done.scenario_recorded)
           /\ recorded' = Append(recorded,
                            [performance |-> performance_data,
                             reads |-> reads,
                             points_before |-> profile.progress.total_points,
                             completed_before |->
                                Len(profile.progress.completed_scenarios)])
    /\ UNCHANGED <<sent, response, payload, reads, session>>

GetSkillLevel ==
    /\ reads < MaxReads
    /\ \E skill \in SkillChoices :
        /\ call' = "get_skill_level"
        /\ args' = <<skill>>
        /\ result' = JNum(get_skill_level(profile, skill))
    /\ reads' = reads + 1
    /\ UNCHANGED <<sent, response, payload, profile, file, recorded, session>>

GetOverallSkillLevel ==
    /\ reads < MaxReads
    /\ call' = "get_overall_skill_level"
    /\ args' = <<>>
    /\ result' = W(get_overall_skill_level(profile))
    /\ reads' = reads + 1
    /\ UNCHANGED <<sent, response, payload, profile, file, recorded, session>>

GetRecommendedScenarios ==
    /\ reads < MaxReads
    /\ call' = "get_recommended_scenarios"
    /\ args' = <<>>
    /\ result' = JArr(get_recommended_scenarios(profile))
    /\ reads' = reads + 1
    /\ UNCHANGED <<sent, response, payload, profile, file, recorded, session>>

NextProfile ==
    \/ UpdatePersonalInfo
    \/ UpdatePreferences
    \/ SetCurrentScenario
    \/ RecordScenarioCompletion
    \/ SummaryPageRecords
    \/ GetSkillLevel
    \/ GetOverallSkillLevel
    \/ GetRecommendedScenarios

SpecProfile == InitProfile /\ [][NextProfile]_vars

-----------------------------------------------------------------------------
(* Properties of UserProfile (checked under SpecProfile) *)

\* a step made by record_scenario_completion
Recording == Len(recorded') = Len(recorded) + 1

\* one step: a call of record_scenario_completion with points_earned >= 0
\* appends one record, leaves the earlier records alone and adds
\* points_earned to total_points; any other call leaves both as they are
C10_Step ==
    LET before == profile.progress
        after == profile'.progress
        n == Len(before.completed_scenarios)
    IN IF Recording
       THEN LET performance_data == recorded'[Len(recorded')].performance
            IN (performance_data.has_points /\ performance_data.points_earned >= 0)
               => /\ Len(after.completed_scenarios) = n + 1
                  /\ SubSeq(after.completed_scenarios, 1, n) = before.completed_scenarios
                  /\ after.completed_scenarios[n + 1].performance = performance_data
                  /\ after.total_points = before.total_points + performance_data.points_earned
       ELSE /\ after.completed_scenarios = before.completed_scenarios
            /\ after.total_points = before.total_points

\* once the last two calls of record_scenario_completion both had
\* points_earned = 80, total_points is 160 more and completed_scenarios 2
\* longer than before the first of them
C10_TwoCalls ==
    LET n == Len(recorded) IN
    (/\ n >= 2
     /\ \A i \in {n - 1, n} :
            /\ recorded[i].performance.has_points
            /\ recorded[i].performance.points_earned = 80)
    => /\ profile.progress.total_points = recorded[n - 1].points_before + 160
       /\ Len(profile.progress.completed_scenarios)
            = recorded[n - 1].completed_before + 2

\* C10: each call of record_scenario_completion with a non-negative
\* points_earned appends exactly one record to completed_scenarios and adds
\* points_earned to total_points; two calls with 80 raise total_points by
\* 160 and the length of completed_scenarios by 2; no read and no other
\* call in between changes either value, so neither ever decreases.
C10_CompletionAddsPoints == [][C10_Step]_vars /\ []C10_TwoCalls

C10_Witness ==
    /\ Len(recorded) = 2
    /\ recorded[1].performance.points_earned = 80
    /\ recorded[2].performance.points_earned = 80
    /\ recorded[1].reads < recorded[2].reads
    /\ profile.progress.total_points = 160
    /\ Len(profile.progress.completed_scenarios) = 2

-----------------------------------------------------------------------------
(* The Streamlit session (src/app.py).  Every action is one run of the     *)
(* script: main() draws the sidebar, handles the widget the user operated  *)
(* and draws the page of current_step, until the end of the script, a      *)
(* st.rerun() or an exception.  show_scenario_summary,                     *)
(* show_progress_dashboard and show_certificate_page keep nothing in the   *)
(* part of the session held here but current_step; a run in their steps    *)
(* is followed up to the dispatch of main and none of their widgets is     *)
(* operated.                                                               *)

\* the scenario of available_scenarios that the session plays, time and
\* again
ScenarioIds == {"phishing-1"}

ScenarioDomain(id) == IF id = "phishing-1" THEN "phishing" ELSE "ransomware"

\* a scenario of available_scenarios before show_scenario first writes to
\* it: no "narrative" key; 0 and [] are what scenario.get defaults to
NewScenario ==
    [has_narrative |-> FALSE, current_decision_index |-> 0,
     decision_points |-> <<>>]

NoDisplay == [page |-> "none", sidebar |-> FALSE, point |-> None]

\* st.session_state after lines 30-50; current_scenario holds the id of
\* the scenario of available_scenarios it refers to.  The keys that the
\* summary page creates are held as whether they exist
\* (has_current_assessment, has_assessment_answers, has_decision_history),
\* as the number of questions of current_assessment and as the number of
\* them that assessment_answers answers right.  With it: what the last run drew,
\* whether it ended in st.rerun(), and the generator methods it called;
\* and whether the remote model of the session is reliable: it answers
\* every call, and every call for a decision point with a decision point
InitialSession ==
    [current_step |-> "welcome",
     current_scenario |-> NoScenario,
     scenarios_decision_history |-> [id \in ScenarioIds |-> <<>>],
     scenarios_learning_moments |-> [id \in ScenarioIds |-> <<>>],
     num_assessment_questions |-> 3,
     has_available_scenarios |-> FALSE,
     available_scenarios |-> [id \in ScenarioIds |-> NewScenario],
     agent_user_profile |-> [skill_level |-> "beginner", industry |-> "", role |-> ""],
     has_current_assessment |-> FALSE,
     has_assessment_answers |-> FALSE,
     questions |-> 0,
     correct_count |-> 0,
     assessment_submitted |-> FALSE,
     scenario_recorded |-> FALSE,
     has_decision_history |-> FALSE,
     display |-> NoDisplay,
     rerun |-> TRUE,
     calls |-> <<>>,
     reliable |-> FALSE]

\* str.lower() on the choices of the onboarding form
Lower(x) ==
    CASE x = "Technology" -> "technology"
      [] x = "IT Professional" -> "it professional"
      [] x = "Select your role" -> "select your role"
      [] x = "Beginner" -> "beginner"
      [] OTHER -> x

\* what a run leaves: the session, the profile, the file, whether it met
\* an exception, and what generate_decision_point returned,
\* NotCalled when the run did not call it
NotCalled == <<"none", "none">>

Outcome(s, p, f, failed, returned) ==
    [session |-> s, profile |-> p, file |-> f, failed |-> failed,
     returned |-> returned]

\* the run ended with the page drawn
Drawn(s, nav, page, point, calls) ==
    [s EXCEPT !.display = [page |-> page, sidebar |-> nav, point |-> point],
              !.rerun = FALSE, !.calls = calls]

\* the run ended in st.rerun(): the script runs again at once
Rerunning(s, calls) ==
    [s EXCEPT !.display = [page |-> "rerun", sidebar |-> FALSE, point |-> None],
              !.rerun = TRUE, !.calls = calls]

\* the run ended in an exception: the page shows it below the sidebar
Broken(s, nav, calls) ==
    [s EXCEPT !.display = [page |-> "error", sidebar |-> nav, point |-> None],
              !.rerun = FALSE, !.calls = calls]

\* Variant of reset_scenario: the step is left as it is
reset_scenario_in_place(s) ==
    [s EXCEPT !.current_scenario = NoScenario]

\* lines 53-56
reset_scenario(s) ==
    [s EXCEPT !.current_scenario = NoScenario,
              !.current_step = "select_scenario"]

\* Variant of save_decision: the history holds the last decision only
save_last_decision(s, scenario_id, decision, is_correct) ==
    [s EXCEPT !.scenarios_decision_history[scenario_id] =
        <<[decision |-> decision, correct |-> is_correct]>>]

\* lines 58-69; feedback, summary and timestamp are left out
save_decision(s, scenario_id, decision, is_correct) ==
    [s EXCEPT !.scenarios_decision_history[scenario_id] =
        Append(@, [decision |-> decision, correct |-> is_correct])]

save_learning_moment(s, scenario_id, learning_moment) ==
    [s EXCEPT !.scenarios_learning_moments[scenario_id] =
        Append(@, learning_moment)]

\* Variant of RequiredFields: the form is accepted without a name
RequiredFieldsButName(form) ==
    /\ form.industry # "Select your industry"
    /\ form.role # "Select your role"

\* line 268: name and industry != "Select your industry" and role !=
\* "Select your role"
RequiredFields(form) ==
    /\ form.name # ""
    /\ form.industry # "Select your industry"
    /\ form.role # "Select your role"

show_welcome(s, p, f, nav, input) ==
    CASE input.widget = "submit" ->
            IF RequiredFields(input.form)
            THEN LET updated == update_personal_info(p,
                        [key \in {"name", "email", "industry", "role",
                                  "experience_level"} |->
                            CASE key = "name" -> input.form.name
                              [] key = "email" -> input.form.email
                              [] key = "industry" -> Lower(input.form.industry)
                              [] key = "role" -> Lower(input.form.role)
                              [] OTHER -> Lower(input.form.experience)])
                 IN Outcome(
                        Rerunning(
                            [s EXCEPT
                                !.agent_user_profile =
                                    [skill_level |-> Lower(input.form.experience),
                                     industry |-> Lower(input.form.industry),
                                     role |-> Lower(input.form.role)],
                                !.current_step = "select_scenario"], <<>>),
                        updated, save(updated), FALSE, NotCalled)
            ELSE Outcome(Drawn(s, nav, "welcome", None, <<>>), p, f, FALSE, NotCalled)
      [] input.widget = "skip" ->
            LET updated == update_personal_info(p,
                        [key \in {"name", "email", "industry", "role",
                                  "experience_level"} |->
                            CASE key = "name" -> "Demo User"
                              [] key = "email" -> "demo@example.com"
                              [] key = "industry" -> "technology"
                              [] key = "role" -> "it professional"
                              [] OTHER -> "beginner"])
            IN Outcome(
                    Rerunning(
                        [s EXCEPT
                            !.agent_user_profile =
                                [skill_level |-> "beginner",
                                 industry |-> "technology",
                                 role |-> "it professional"],
                            !.current_step = "select_scenario"], <<>>),
                    updated, save(updated), FALSE, NotCalled)
      [] OTHER -> Outcome(Drawn(s, nav, "welcome", None, <<>>), p, f, FALSE, NotCalled)

\* the slider is left at its value, 5; available_scenarios is created by
\* the first run of the page and kept from then on
show_scenario_selection(s, p, f, nav, input) ==
    LET listed == [s EXCEPT !.num_assessment_questions = 5,
                            !.has_available_scenarios = TRUE]
    IN IF input.widget = "start"
       THEN Outcome(
                Rerunning([listed EXCEPT !.current_scenario = input.id,
                                         !.current_step = "run_scenario"], <<>>),
                p, f, FALSE, NotCalled)
       ELSE Outcome(Drawn(listed, nav, "select_scenario", None, <<>>),
                    p, f, FALSE, NotCalled)

\* the number n as it stands in a text
Numeral(n) ==
    IF n \in 1..9 THEN <<"1", "2", "3", "4", "5", "6", "7", "8", "9">>[n]
    ELSE "many"

\* lines 533-553: the decision point used when generation fails
FallbackDecisionPoint(domain, decision_number) ==
    JObj([x \in {K("question"), K("options"), K("html_content")} |->
        CASE x = K("question") ->
                JStr(<<"What do you do in this ", domain, " situation?">>)
          [] x = K("options") ->
                JArr(<<Option("Take immediate action without verification", FALSE),
                       Option("Follow security protocols and report the incident", TRUE),
                       Option("Ignore the situation as it's probably not serious", FALSE),
                       Option("Ask a colleague what they would do", FALSE)>>)
          [] OTHER ->
                JStr(<<"<h3>Decision Point ", Numeral(decision_number), "</h3>",
                       "<p>What do you do in this ", domain, " situation?</p>">>)])

\* Variant of PointOrFallback: what was generated is used as it is
PointAsGenerated(decision_point, domain, decision_number) == decision_point

\* lines 532-553: `if not decision_point` puts the fallback in its place
PointOrFallback(decision_point, domain, decision_number) ==
    IF ~Truthy(decision_point)
    THEN FallbackDecisionPoint(domain, decision_number)
    ELSE decision_point

\* lines 560-570 raise nothing on the point: it has html_content, and every
\* option has a text
Displayable(decision_point) ==
    /\ IsDict(decision_point)
    /\ K("html_content") \in DOMAIN decision_point[2]
    /\ K("options") \in DOMAIN decision_point[2]
    /\ IsList(decision_point[2][K("options")])
    /\ \A i \in 1..Len(decision_point[2][K("options")][2]) :
            LET option == decision_point[2][K("options")][2][i]
            IN IsDict(option) /\ K("text") \in DOMAIN option[2]

\* line 597
NextDecisionIndex(current_index) == current_index + 1

\* Variant of ChooseDecision: analyze_decision is called a second time
ChooseDecisionTwice(s, p, f, nav, id, current_index, decision_point, choice, remote, calls) ==
    LET option == decision_point[2][K("options")][2][choice]
        is_correct == FlaggedCorrect(option)
        analysed == calls \o <<"analyze_decision", "analyze_decision">>
        saved == save_decision(s, id, option[2][K("text")], is_correct)
        learned == Append(analysed, "generate_learning_moment")
        moved == [(IF is_correct
                   THEN save_learning_moment(saved, id, "learning moment")
                   ELSE saved)
                  EXCEPT !.available_scenarios[id].current_decision_index =
                            NextDecisionIndex(current_index)]
    IN IF remote.analysis = "raise"
       THEN Outcome(Broken(s, nav, analysed), p, f, TRUE, NotCalled)
       ELSE IF is_correct /\ remote.moment = "raise"
       THEN Outcome(Broken(saved, nav, learned), p, f, TRUE, NotCalled)
       ELSE Outcome(
                Rerunning(
                    IF moved.available_scenarios[id].current_decision_index >= 3
                    THEN [moved EXCEPT !.current_step = "scenario_summary"]
                    ELSE moved,
                    IF is_correct THEN learned ELSE analysed),
                p, f, FALSE, NotCalled)

\* lines 570-604: the button of option `choice` of the point was pressed
ChooseDecision(s, p, f, nav, id, current_index, decision_point, choice, remote, calls) ==
    LET option == decision_point[2][K("options")][2][choice]
        is_correct == FlaggedCorrect(option)
        analysed == Append(calls, "analyze_decision")
        saved == save_decision(s, id, option[2][K("text")], is_correct)
        learned == Append(analysed, "generate_learning_moment")
        moved == [(IF is_correct
                   THEN save_learning_moment(saved, id, "learning moment")
                   ELSE saved)
                  EXCEPT !.available_scenarios[id].current_decision_index =
                            NextDecisionIndex(current_index)]
    IN IF remote.analysis = "raise"
       THEN Outcome(Broken(s, nav, analysed), p, f, TRUE, NotCalled)
       ELSE IF is_correct /\ remote.moment = "raise"
       THEN Outcome(Broken(saved, nav, learned), p, f, TRUE, NotCalled)
       ELSE Outcome(
                Rerunning(
                    IF moved.available_scenarios[id].current_decision_index >= 3
                    THEN [moved EXCEPT !.current_step = "scenario_summary"]
                    ELSE moved,
                    IF is_correct THEN learned ELSE analysed),
                p, f, FALSE, NotCalled)

\* the page of run_scenario; choice is the option whose button was pressed,
\* 0 when none was; generated is what generate_decision_point returns
\* when the page calls it
show_scenario(s, p, f, nav, choice, remote, generated) ==
    IF s.current_scenario = NoScenario
    THEN Outcome(Rerunning([s EXCEPT !.current_step = "select_scenario"], <<>>),
                 p, f, FALSE, NotCalled)
    ELSE
    LET id == s.current_scenario
        scenario == s.available_scenarios[id]
        first_time == ~scenario.has_narrative
        narrated == IF first_time
                    THEN [has_narrative |-> TRUE, current_decision_index |-> 0,
                          decision_points |-> <<>>]
                    ELSE scenario
        told == IF first_time THEN <<"generate_scenario">> ELSE <<>>
        current_index == narrated.current_decision_index
        missing == current_index >= Len(narrated.decision_points)
        \* line 523, when the page comes to it
        decision_point == generated
        asked == IF missing THEN Append(told, "generate_decision_point") ELSE told
        pointed == IF missing
                   THEN [narrated EXCEPT !.decision_points =
                            Append(@, PointOrFallback(decision_point,
                                        ScenarioDomain(id), current_index + 1))]
                   ELSE narrated
    IN IF first_time /\ remote.scenario = "raise"
       THEN Outcome(Broken(s, nav, told), p, f, TRUE, NotCalled)
       ELSE IF missing /\ decision_point = Raised
       THEN Outcome(Broken([s EXCEPT !.available_scenarios[id] = narrated],
                           nav, asked), p, f, TRUE, decision_point)
       ELSE
       LET stored == [s EXCEPT !.available_scenarios[id] = pointed]
           returned == IF missing THEN decision_point ELSE NotCalled
       IN
       IF current_index >= Len(pointed.decision_points)
          \/ ~Displayable(pointed.decision_points[current_index + 1])
       THEN \* IndexError, TypeError or KeyError
            Outcome(Broken(stored, nav, asked), p, f, FALSE, returned)
       ELSE IF choice \in 1..Len(pointed.decision_points[current_index + 1][2][K("options")][2])
       THEN LET done == ChooseDecision(stored, p, f, nav, id, current_index,
                            pointed.decision_points[current_index + 1],
                            choice, remote, asked)
            IN [done EXCEPT !.returned = returned]
       ELSE Outcome(Drawn(stored, nav, "decision_point",
                          pointed.decision_points[current_index + 1], asked),
                    p, f, FALSE, returned)

\* app.py, lines 955-963, and certificate_generator.py, lines 252-260:
\* the keys of the assessment are deleted
ResetAssessment(s) ==
    [s EXCEPT !.has_current_assessment = FALSE,
              !.has_assessment_answers = FALSE,
              !.questions = 0,
              !.correct_count = 0,
              !.assessment_submitted = FALSE,
              !.scenario_recorded = FALSE]

\* sum(1 for d in decision_history if d.get("correct", False))
CorrectDecisions(decision_history) ==
    Len(SelectSeq(decision_history, LAMBDA d : d.correct))

\* agent.py, lines 310-363, as the summary page sees it: the remote model
\* answers with the number of questions asked for
AssessmentQuestions(num_questions) == num_questions

\* app.py, lines 624-985: the page of scenario_summary
show_scenario_summary(s, p, f, nav, input) ==
    IF s.current_scenario = NoScenario
    THEN \* line 633 subscripts None
         Outcome(Broken(s, nav, <<>>), p, f, FALSE, NotCalled)
    ELSE
    LET id == s.current_scenario
        generating == ~s.has_current_assessment
        calls == IF generating THEN <<"generate_knowledge_assessment">> ELSE <<>>
        \* lines 784-800; generate_knowledge_assessment returns its
        \* fallback when anything in it raises (agent.py, lines 310-366),
        \* so the handler of lines 801-803 is not entered
        assessed == IF ~generating THEN s
                    ELSE [s EXCEPT !.has_current_assessment = TRUE,
                                   !.has_assessment_answers = TRUE,
                                   !.questions = AssessmentQuestions(
                                                    s.num_assessment_questions),
                                   !.correct_count = 0,
                                   !.assessment_submitted = FALSE]
        decision_history == s.scenarios_decision_history[id]
        \* lines 884-940
        recording == /\ assessed.questions # 0
                     /\ assessed.assessment_submitted
                     /\ ~assessed.scenario_recorded
        done == RecordOnSummaryPage(p, f, id, ScenarioDomain(id),
                    CorrectDecisions(decision_history),
                    Max(1, Len(decision_history)),
                    assessed.correct_count, assessed.questions)
        shown == IF recording
                 THEN [assessed EXCEPT !.scenario_recorded = done.scenario_recorded]
                 ELSE assessed
        profile_shown == IF recording THEN done.profile ELSE p
        file_shown == IF recording THEN done.file ELSE f
        \* line 939: the handler of what the recording raised
        failed == recording /\ ~done.scenario_recorded
    IN IF /\ assessed.questions # 0
          /\ ~assessed.assessment_submitted
          /\ input.widget = "Submit Assessment"
       THEN \* lines 808-836: the form, its radio buttons and its button
            Outcome(Rerunning([assessed EXCEPT !.correct_count = input.choice,
                                               !.assessment_submitted = TRUE],
                              calls),
                    p, f, FALSE, NotCalled)
       ELSE
       CASE shown.assessment_submitted
                /\ input.widget = "Generate Completion Certificate" ->
                Outcome(Rerunning([shown EXCEPT !.current_step = "certificate"], calls),
                        profile_shown, file_shown, failed, NotCalled)
         [] input.widget = "Choose Another Scenario" ->
                Outcome(Rerunning([ResetAssessment(shown) EXCEPT
                                        !.current_step = "select_scenario"], calls),
                        profile_shown, file_shown, failed, NotCalled)
         [] input.widget = "View Progress Dashboard" ->
                Outcome(Rerunning([ResetAssessment(shown) EXCEPT
                                        !.current_step = "progress"], calls),
                        profile_shown, file_shown, failed, NotCalled)
         [] OTHER ->
                Outcome(Drawn(shown, nav, "scenario_summary", None, calls),
                        profile_shown, file_shown, failed, NotCalled)

\* certificate_generator.py, lines 183-288: the page of certificate; its
\* two buttons "clear decision history" by writing the key
\* decision_history, which no page reads
show_certificate_page(s, p, f, nav, input) ==
    IF \/ s.current_scenario = NoScenario
       \/ ~s.has_current_assessment
       \/ s.questions # 0 /\ ~s.has_assessment_answers
    THEN \* line 196 subscripts None, lines 204-207 read a key that is not
         \* there
         Outcome(Broken(s, nav, <<>>), p, f, FALSE, NotCalled)
    ELSE
    CASE input.widget = "Choose Another Scenario" ->
            Outcome(Rerunning([ResetAssessment(s) EXCEPT
                                    !.has_decision_history = TRUE,
                                    !.current_step = "select_scenario"], <<>>),
                    p, f, FALSE, NotCalled)
      [] input.widget = "View Progress Dashboard" ->
            Outcome(Rerunning([ResetAssessment(s) EXCEPT
                                    !.has_decision_history = TRUE,
                                    !.current_step = "progress"], <<>>),
                    p, f, FALSE, NotCalled)
      [] OTHER -> Outcome(Drawn(s, nav, "certificate", None, <<>>),
                          p, f, FALSE, NotCalled)

\* one run of the script
main(s, p, f, input, remote, generated) ==
    LET nav == s.current_step # "welcome" IN
    CASE nav /\ input.widget = "Home" ->
            Outcome(Rerunning([s EXCEPT !.current_step = "select_scenario"], <<>>),
                    p, f, FALSE, NotCalled)
      [] nav /\ input.widget = "My Progress" ->
            Outcome(Rerunning([s EXCEPT !.current_step = "progress"], <<>>),
                    p, f, FALSE, NotCalled)
      [] nav /\ input.widget = "Start New Scenario" ->
            Outcome(Rerunning(reset_scenario(s), <<>>), p, f, FALSE, NotCalled)
      [] OTHER ->
            CASE s.current_step = "welcome" -> show_welcome(s, p, f, nav, input)
              [] s.current_step = "select_scenario" ->
                    show_scenario_selection(s, p, f, nav, input)
              [] s.current_step = "run_scenario" ->
                    show_scenario(s, p, f, nav,
                        IF input.widget = "option" THEN input.choice ELSE 0,
                        remote, generated)
              [] s.current_step = "scenario_summary" ->
                    show_scenario_summary(s, p, f, nav, input)
              [] s.current_step = "certificate" ->
                    show_certificate_page(s, p, f, nav, input)
              [] s.current_step = "progress" ->
                    Outcome(Drawn(s, nav, "progress", None, <<>>),
                            p, f, FALSE, NotCalled)
              [] OTHER ->
                    Outcome(Rerunning([s EXCEPT !.current_step = "welcome"], <<>>),
                            p, f, FALSE, NotCalled)

-----------------------------------------------------------------------------
(* One session and its user *)

\* most decisions made in one session
MaxDecisions == 3
\* most completions that one session records in the profile
MaxRecordings == 1
\* the same two, of a session whose remote model is reliable
MaxReliableDecisions == 4
MaxReliableRecordings == 2

DecisionsBound(s) == IF s.reliable THEN MaxReliableDecisions ELSE MaxDecisions
RecordingsBound(s) == IF s.reliable THEN MaxReliableRecordings ELSE MaxRecordings

NoForm == [name |-> "", email |-> "", industry |-> "", role |-> "", experience |-> ""]

\* the onboarding form as the user submits it: filled in, with no role
\* selected, and with no name
FormChoices ==
    {[name |-> "Demo User", email |-> "demo@example.com",
      industry |-> "Technology", role |-> role, experience |-> "Beginner"] :
        role \in {"IT Professional", "Select your role"}}
    \cup {[name |-> "", email |-> "", industry |-> "Technology",
           role |-> "IT Professional", experience |-> "Beginner"]}

Input(widget, id, choice, form) ==
    [widget |-> widget, id |-> id, choice |-> choice, form |-> form]

\* what the remote model answers to generate_decision_point in a session:
\* a decision point, a decision point after prose, a decision point whose
\* first option is a string, or no answer
PointPayloads ==
    {[kind |-> "point", form |-> form,
      val |-> MkPoint([q |-> TRUE, h |-> TRUE,
                       o |-> [t |-> "list", l |-> <<"F", "T">>]], 1)] :
        form \in {"bare", "prose_fenced"}}
    \cup {[kind |-> "point", form |-> "fenced",
           val |-> MkPoint([q |-> TRUE, h |-> TRUE,
                            o |-> [t |-> "list", l |-> <<"words", "T">>]], 1)]}
    \cup {[kind |-> "raise", form |-> "bare", val |-> None]}

\* what the remote model does in one run, call by call; the first call
\* that raises ends the run
Raises(remote) ==
    {x \in {"scenario", "point", "analysis", "moment"} :
        IF x = "point" THEN remote.point.kind = "raise" ELSE remote[x] = "raise"}

RemoteChoices ==
    {remote \in [scenario : {"ok", "raise"}, point : PointPayloads,
                 analysis : {"ok", "raise"}, moment : {"ok", "raise"}] :
        Cardinality(Raises(remote)) <= 1}

\* what a reliable remote model does: nothing raises, and the decision
\* point is sent bare
ReliableChoices ==
    {remote \in RemoteChoices :
        Raises(remote) = {} /\ remote.point.form = "bare"}

\* the calls of the remote model whose outcome `remote` chooses
Chosen(remote) ==
    Raises(remote)
    \cup (IF remote.point.form = "bare" THEN {} ELSE {"point"})

\* the generator method that makes each of these calls
Generator(x) ==
    CASE x = "scenario" -> "generate_scenario"
      [] x = "point" -> "generate_decision_point"
      [] x = "analysis" -> "analyze_decision"
      [] OTHER -> "generate_learning_moment"

\* the options whose button the user presses: the first or the second
Choices == {1, 2}

RECURSIVE CountDecisions(_, _)
CountDecisions(s, ids) ==
    IF ids = {} THEN 0
    ELSE LET id == CHOOSE x \in ids : TRUE
         IN Len(s.scenarios_decision_history[id]) + CountDecisions(s, ids \ {id})

InitApp ==
    /\ session = InitialSession
    /\ profile = DefaultProfile
    /\ file = <<>>
    /\ reads = 0
    /\ recorded = <<>>
    /\ call = "none"
    /\ args = <<>>
    /\ result = None
    /\ response = IdleResponse
    /\ payload = IdlePayload
    /\ sent = <<>>

\* what generate_decision_point returns on each response of the remote model
GeneratedPoint ==
    [p \in PointPayloads |-> generate_decision_point(Run(p))]

\* the script runs on `input`
RunScript(input) ==
    \E remote \in IF session.reliable THEN ReliableChoices ELSE RemoteChoices :
    \* an outcome is chosen for the calls the run makes, and these are made
    \* on the page of run_scenario
    /\ Chosen(remote) # {} => session.current_step = "run_scenario"
    /\ \E done \in {main(session, profile, file, input, remote,
                         GeneratedPoint[remote.point])} :
        /\ \A x \in Chosen(remote) : InSeq(Generator(x), done.session.calls)
        /\ Len(done.profile.progress.completed_scenarios) <= RecordingsBound(session)
        /\ session' = done.session
        /\ profile' = done.profile
        /\ file' = done.file
        /\ call' = IF done.returned # NotCalled
                   THEN "generate_decision_point" ELSE "none"
        /\ payload' = IF done.returned # NotCalled
                      THEN remote.point ELSE IdlePayload
        /\ response' = IF done.returned # NotCalled
                       THEN Run(remote.point) ELSE IdleResponse
        /\ result' = IF done.returned # NotCalled
                     THEN done.returned ELSE None
        \* Start Scenario begins an attempt, unless the scenario has 1 or 2
        \* decision points answered, and then goes on with the attempt
        \* begun at 0 before: with a reliable remote model, the scenario and
        \* the number of decision points answered in it when the attempt
        \* began are noted, with the completions and the points that the
        \* profile has
        /\ recorded' = IF input.widget = "start" /\ session.reliable
                       THEN <<[scenario_id |-> input.id,
                               answered |->
                                   IF session.available_scenarios[input.id]
                                          .current_decision_index \in {1, 2}
                                   THEN 0
                                   ELSE session.available_scenarios[input.id]
                                            .current_decision_index,
                               completed |->
                                   Len(profile.progress.completed_scenarios),
                               total_points |-> profile.progress.total_points]>>
                       ELSE recorded
        /\ UNCHANGED <<args, reads, sent>>

\* the script runs with no widget operated: after st.rerun(), or because
\* the user asks for it
Rerun == RunScript(Input("none", NoScenario, 0, NoForm))

SubmitOnboarding ==
    /\ ~session.rerun
    /\ session.display.page = "welcome"
    /\ \E form \in FormChoices : RunScript(Input("submit", NoScenario, 0, form))

SkipOnboarding ==
    /\ ~session.rerun
    /\ session.display.page = "welcome"
    /\ RunScript(Input("skip", NoScenario, 0, NoForm))

StartScenario ==
    /\ ~session.rerun
    /\ session.display.page = "select_scenario"
    /\ \E id \in ScenarioIds : RunScript(Input("start", id, 0, NoForm))

ChooseOption ==
    /\ ~session.rerun
    /\ session.display.page = "decision_point"
    /\ CountDecisions(session, ScenarioIds) < DecisionsBound(session)
    /\ \E choice \in Choices \cap
                        1..Len(session.display.point[2][K("options")][2]) :
            RunScript(Input("option", NoScenario, choice, NoForm))

\* the form of the assessment is submitted with all of its questions
\* answered right
SubmitAssessment ==
    /\ ~session.rerun
    /\ session.display.page = "scenario_summary"
    /\ session.questions # 0
    /\ ~session.assessment_submitted
    /\ \E correct_count \in {session.questions} :
            RunScript(Input("Submit Assessment", NoScenario, correct_count, NoForm))

GenerateCertificate ==
    /\ ~session.rerun
    /\ session.display.page = "scenario_summary"
    /\ session.assessment_submitted
    /\ RunScript(Input("Generate Completion Certificate", NoScenario, 0, NoForm))

ChooseAnotherScenario ==
    /\ ~session.rerun
    /\ session.display.page \in {"scenario_summary", "certificate"}
    /\ RunScript(Input("Choose Another Scenario", NoScenario, 0, NoForm))

ViewProgressDashboard ==
    /\ ~session.rerun
    /\ session.display.page \in {"scenario_summary", "certificate"}
    /\ RunScript(Input("View Progress Dashboard", NoScenario, 0, NoForm))

Home ==
    /\ ~session.rerun
    /\ session.display.sidebar
    /\ RunScript(Input("Home", NoScenario, 0, NoForm))

MyProgress ==
    /\ ~session.rerun
    /\ session.display.sidebar
    /\ RunScript(Input("My Progress", NoScenario, 0, NoForm))

StartNewScenario ==
    /\ ~session.rerun
    /\ session.display.sidebar
    /\ RunScript(Input("Start New Scenario", NoScenario, 0, NoForm))

\* a session whose remote model is reliable
InitReliable ==
    /\ session = [InitialSession EXCEPT !.reliable = TRUE]
    /\ profile = DefaultProfile
    /\ file = <<>>
    /\ reads = 0
    /\ recorded = <<>>
    /\ call = "none"
    /\ args = <<>>
    /\ result = None
    /\ response = IdleResponse
    /\ payload = IdlePayload
    /\ sent = <<>>

NextApp ==
    \/ Rerun
    \/ SubmitOnboarding
    \/ SkipOnboarding
    \/ StartScenario
    \/ ChooseOption
    \/ SubmitAssessment
    \/ GenerateCertificate
    \/ ChooseAnotherScenario
    \/ ViewProgressDashboard
    \/ Home
    \/ MyProgress
    \/ StartNewScenario

SpecApp == InitApp /\ [][NextApp]_vars

SpecReliable == InitReliable /\ [][NextApp]_vars

-----------------------------------------------------------------------------
(* Properties of the session *)

\* the scenario that show_scenario works on, before and after a run
Played(s) == s.available_scenarios[CHOOSE id \in ScenarioIds : TRUE]

\* the run drew a decision point and its buttons
Offers(s) == s.display.page = "decision_point"

CorrectOptions(point) ==
    {i \in 1..Len(point[2][K("options")][2]) :
        FlaggedCorrect(point[2][K("options")][2][i])}

\* the index is within the stored decision points, and the decision point
\* on the page is the stored one at the index, with its 2 options or more
C9_Stored ==
    /\ \A id \in ScenarioIds :
        session.available_scenarios[id].current_decision_index
            <= Len(session.available_scenarios[id].decision_points)
    /\ Offers(session) =>
        /\ session.current_scenario \in ScenarioIds
        /\ LET scenario == session.available_scenarios[session.current_scenario]
           IN /\ scenario.current_decision_index < Len(scenario.decision_points)
              /\ session.display.point =
                    scenario.decision_points[scenario.current_decision_index + 1]
        /\ Len(session.display.point[2][K("options")][2]) >= 2

\* a run that draws a decision point appends exactly one when the index
\* equals their number and none otherwise; what it appends when
\* generate_decision_point returned None is the fallback, with 4 options
\* and 1 correct; and a run in which it returned None draws a decision point
C9_Render ==
    LET before == Played(session)
        after == Played(session')
        n == Len(before.decision_points)
    IN /\ Offers(session') =>
            IF before.current_decision_index = n
            THEN /\ Len(after.decision_points) = n + 1
                 /\ SubSeq(after.decision_points, 1, n) = before.decision_points
                 /\ call' = "generate_decision_point"
                 /\ result' = None =>
                        /\ after.decision_points[n + 1] =
                                FallbackDecisionPoint(
                                    ScenarioDomain(session'.current_scenario), n + 1)
                        /\ Len(after.decision_points[n + 1][2][K("options")][2]) = 4
                        /\ Cardinality(CorrectOptions(after.decision_points[n + 1])) = 1
            ELSE /\ before.current_decision_index < n
                 /\ after.decision_points = before.decision_points
       /\ (call' = "generate_decision_point" /\ result' = None) => Offers(session')

-----------------------------------------------------------------------------
(* Properties of the profile and its file (checked under SpecProfile) *)

\* an operation that changes the profile has ended: each of them but
\* record_scenario_completion saves on every path
Mutated == file # <<>> \/ recorded # <<>>

\* C11: once update_personal_info, update_preferences, set_current_scenario,
\* record_scenario_completion or the recording of the summary page has
\* ended, normally or by an exception, the file of the user holds the
\* profile document that is in memory.
C11_FileHoldsProfile == Mutated => file = save(profile)

\* C12: from the default profile on, whatever completions are recorded,
\* by record_scenario_completion with skill_impacts of either sign or by
\* the summary page, every skill level of the profile is within 0..10.
C12_SkillLevelsBounded ==
    \A skill \in DOMAIN profile.progress.skill_levels :
        /\ profile.progress.skill_levels[skill] >= Level(0)
        /\ profile.progress.skill_levels[skill] <= Level(10)

\* two completions with an impact of 6 on the same skill: the sum is 12 and
\* the level stored is 10
C12_Witness ==
    /\ Len(recorded) = 2
    /\ \A i \in 1..2 :
        /\ "phishing_awareness" \in DOMAIN recorded[i].performance.skill_impacts
        /\ recorded[i].performance.skill_impacts["phishing_awareness"] = 6
    /\ profile.progress.skill_levels["phishing_awareness"] = Level(10)

\* the places in knowledge_gaps of the gaps that are no strengths
OpenGaps(assessment) ==
    {i \in 1..Len(assessment.knowledge_gaps) :
        ~InSeq(assessment.knowledge_gaps[i], assessment.strengths)}

\* the k-th of them, in the order of knowledge_gaps
OpenGap(assessment, k) ==
    assessment.knowledge_gaps[
        CHOOSE i \in OpenGaps(assessment) :
            Cardinality({j \in OpenGaps(assessment) : j < i}) = k - 1]

\* the step is a call of record_scenario_completion that returned
Returning ==
    /\ Recording
    /\ \/ call' = "record_scenario_completion" /\ result' = None
       \/ call' = "show_scenario_summary" /\ result' = JBool(TRUE)

C13_Step ==
    Returning =>
        LET assessment == profile'.assessment
            focus == assessment.recommended_focus_areas
        IN /\ Len(focus) = Min(3, Cardinality(OpenGaps(assessment)))
           /\ \A k \in 1..Len(focus) : focus[k] = OpenGap(assessment, k)
           /\ Len(focus) <= 3
           /\ \A k \in 1..Len(focus) : ~InSeq(focus[k], assessment.strengths)

\* C13: when a call of record_scenario_completion returns,
\* recommended_focus_areas is the first 3 (or all, when fewer) of the
\* knowledge_gaps that are not strengths, in the order of knowledge_gaps;
\* it has at most 3 entries and none of them is a strength.
C13_FocusAreas == [][C13_Step]_vars

\* 4 gaps of which 1 is a strength: the 3 others are recommended, in order
C13_Witness ==
    /\ call = "record_scenario_completion"
    /\ result = None
    /\ profile.assessment.strengths = <<"phishing">>
    /\ profile.assessment.knowledge_gaps
        = <<"backups", "phishing", "passwords", "wifi">>
    /\ profile.assessment.recommended_focus_areas
        = <<"backups", "passwords", "wifi">>

-----------------------------------------------------------------------------
(* Properties of the decision history *)

\* every history of the session keeps its records, in their places
AppendOnly ==
    \A id \in ScenarioIds :
        LET before == session.scenarios_decision_history[id]
            after == session'.scenarios_decision_history[id]
        IN /\ Len(after) >= Len(before)
           /\ SubSeq(after, 1, Len(before)) = before

\* the step is the run in which the user pressed the button of option
\* `choice` of the decision point on the page
Click(choice) ==
    /\ ~session.rerun
    /\ session.display.page = "decision_point"
    /\ choice \in 1..Len(session.display.point[2][K("options")][2])
    /\ InSeq("analyze_decision", session'.calls)
    /\ RunScript(Input("option", NoScenario, choice, NoForm))

\* the run ended in what analyze_decision raised
AnalysisRaised ==
    /\ session'.display.page = "error"
    /\ session'.calls # <<>>
    /\ session'.calls[Len(session'.calls)] = "analyze_decision"

\* the history of the current scenario grew by one record, that of option
\* `choice`, and no other history changed
Recorded(choice) ==
    LET option == session.display.point[2][K("options")][2][choice]
    IN session'.scenarios_decision_history =
        [session.scenarios_decision_history EXCEPT ![session.current_scenario] =
            Append(@, [decision |-> option[2][K("text")],
                       correct |-> FlaggedCorrect(option)])]

\* C14 as stated: across the UI actions of a session each scenario's
\* decision history changes only by appending, and each click on a decision
\* option appends exactly one record, whose `correct` is the is_correct of
\* the option chosen.
C14_EveryClickRecords ==
    [][AppendOnly /\ \A choice \in Choices : Click(choice) => Recorded(choice)]_vars

C14_Step ==
    /\ AppendOnly
    /\ \A choice \in Choices :
        Click(choice) =>
            IF AnalysisRaised
            THEN session'.scenarios_decision_history
                    = session.scenarios_decision_history
            ELSE Recorded(choice)

\* C14 (amended): across the UI actions of a session each scenario's
\* decision history changes only by appending; a click on a decision option
\* whose call of analyze_decision returns appends exactly one record, whose
\* `correct` is the is_correct of the option chosen, and a click whose call
\* of analyze_decision raises appends none.
C14_HistoryAppendOnly == [][C14_Step]_vars

\* two decisions are recorded and the third click ended in what
\* analyze_decision raised
C14_Witness ==
    /\ session.display.page = "error"
    /\ session.calls = <<"analyze_decision">>
    /\ session.current_scenario \in ScenarioIds
    /\ Len(session.scenarios_decision_history[session.current_scenario]) = 2

\* C16 as stated: a user action (a click or a form submit, with the render
\* of the page that it causes) makes at most one call of the remote model:
\* a run makes at most 1, and none when the run before it, which ended in
\* st.rerun(), made 1.
C16_OneCallPerAction ==
    [][Len(session'.calls) + (IF session.rerun THEN Len(session.calls) ELSE 0)
            <= 1]_vars

C16_Step ==
    /\ Len(session'.calls) <= 2
    /\ session.rerun =>
        /\ ~session'.rerun
        /\ Len(session.calls) + Len(session'.calls) <= 3

\* C16 (amended): a user action (a click or a form submit, with the render
\* of the page that it causes) makes at most 3 calls of the remote model,
\* one after the other: at most 2 in the run of the click and at most 2 in
\* the render that follows it, which ends the action.
C16_CallsPerAction == [][C16_Step]_vars

\* the click on a correct option has called analyze_decision and
\* generate_learning_moment, and the render of the next page is still to
\* come
C16_Witness ==
    /\ session.rerun
    /\ session.calls = <<"analyze_decision", "generate_learning_moment">>

-----------------------------------------------------------------------------
(* The generator methods: their prompts and their calls of the remote      *)
(* model.  The arguments of a call are Python values; a prompt is its text *)
(* as tokens, the text of the template between two fields being one token. *)

RECURSIVE Join(_, _)
\* sep.join(strs)
Join(strs, sep) ==
    IF strs = <<>> THEN <<>>
    ELSE IF Len(strs) = 1 THEN strs[1]
    ELSE strs[1] \o sep \o Join(Tail(strs), sep)

\* str(x), which str.format puts in the place of a field
Str(x) ==
    CASE x[1] = "str" -> x[2]
      [] x[1] = "num" -> <<Numeral(x[2])>>
      [] x[1] = "bool" -> IF x[2] THEN <<"True">> ELSE <<"False">>
      [] x[1] = "arr" ->
            <<"[">>
            \o Join([i \in 1..Len(x[2]) |-> <<"'">> \o x[2][i][2] \o <<"'">>],
                    <<", ">>)
            \o <<"]">>
      [] OTHER -> <<"None">>

\* the text of a template between two of its fields
Static == "..."

\* prompts.py: the fields of each template, in the order of the text
SCENARIO_GENERATION_PROMPT ==
    <<"security_domain", "threat_type", "industry", "role", "experience_level">>
DECISION_POINTS_PROMPT ==
    <<"scenario_title", "scenario_domain", "industry", "role",
      "experience_level", "industry">>
DECISION_POINT_PROMPT ==
    <<"decision_number", "scenario_title", "scenario_domain", "decision_number",
      "industry", "role", "experience_level", "decision_number",
      "decision_number", "industry">>
DECISION_ANALYSIS_PROMPT == <<"scenario_description", "user_decision", "correctness">>
LEARNING_MOMENT_PROMPT == <<"scenario_description", "security_domain">>
ASSESSMENT_PROMPT == <<"num_questions", "scenario_title">>
RECOMMENDATION_PROMPT == <<"strengths", "knowledge_gaps", "industry", "role">>
KNOWLEDGE_ASSESSMENT_PROMPT ==
    <<"scenario_title", "scenario_domain", "user_industry", "user_role",
      "experience_level", "num_questions", "num_questions">>

RECURSIVE Format(_, _)
\* template.format(**kwargs)
Format(template, kwargs) ==
    IF template = <<>> THEN <<Static>>
    ELSE <<Static>> \o Str(kwargs[Head(template)])
         \o Format(Tail(template), kwargs)

\* Variant of Kwargs: generate_decision_points and generate_decision_point
\* fill the role with the industry
KwargsWithoutRole(method, a) ==
    CASE method \in {"generate_decision_points", "generate_decision_point"} ->
            [field \in (DOMAIN a \ {"user_industry", "user_role"})
                        \cup {"industry", "role"} |->
                CASE field = "industry" -> a.user_industry
                  [] field = "role" -> a.user_industry
                  [] OTHER -> a[field]]
      [] method = "analyze_decision" ->
            [field \in {"user_decision", "scenario_description", "correctness"} |->
                IF field = "correctness"
                THEN (IF Truthy(a.is_correct) THEN W("correct") ELSE W("incorrect"))
                ELSE a[field]]
      [] method = "generate_recommendations" ->
            [field \in DOMAIN a |->
                IF field \in {"strengths", "knowledge_gaps"}
                THEN JStr(Join([i \in 1..Len(a[field][2]) |-> a[field][2][i][2]],
                               <<", ">>))
                ELSE a[field]]
      [] OTHER -> a

\* the keyword arguments that each method passes to format
Kwargs(method, a) ==
    CASE method \in {"generate_decision_points", "generate_decision_point"} ->
            [field \in (DOMAIN a \ {"user_industry", "user_role"})
                        \cup {"industry", "role"} |->
                CASE field = "industry" -> a.user_industry
                  [] field = "role" -> a.user_role
                  [] OTHER -> a[field]]
      [] method = "analyze_decision" ->
            [field \in {"user_decision", "scenario_description", "correctness"} |->
                IF field = "correctness"
                THEN (IF Truthy(a.is_correct) THEN W("correct") ELSE W("incorrect"))
                ELSE a[field]]
      [] method = "generate_recommendations" ->
            [field \in DOMAIN a |->
                IF field \in {"strengths", "knowledge_gaps"}
                THEN JStr(Join([i \in 1..Len(a[field][2]) |-> a[field][2][i][2]],
                               <<", ">>))
                ELSE a[field]]
      [] OTHER -> a

Template(method) ==
    CASE method = "generate_scenario" -> SCENARIO_GENERATION_PROMPT
      [] method = "generate_decision_points" -> DECISION_POINTS_PROMPT
      [] method = "generate_decision_point" -> DECISION_POINT_PROMPT
      [] method = "analyze_decision" -> DECISION_ANALYSIS_PROMPT
      [] method = "generate_learning_moment" -> LEARNING_MOMENT_PROMPT
      [] method = "generate_assessment" -> ASSESSMENT_PROMPT
      [] method = "generate_recommendations" -> RECOMMENDATION_PROMPT
      [] OTHER -> KNOWLEDGE_ASSESSMENT_PROMPT

\* Variant of RemoteCalls: a call that raised is made a second time
RemoteCallsRetried(prompt, run) ==
    IF run.raised THEN <<prompt, prompt>> ELSE <<prompt>>

\* agent.py, lines 86, 112, 180, 231, 250, 269, 292 and 322: every method
\* has one statement self.agent.run(prompt), in no loop, on its way to
\* every return and every handler
RemoteCalls(prompt, run) == <<prompt>>

\* Variant of TextResult: a call that raised gives None
TextResultOrNone(run) == IF run.raised THEN None ELSE JStr(run.content)

\* lines 86-87, 231-232, 250-251, 269-270, 292-293: return response.content
TextResult(run) == IF run.raised THEN Raised ELSE JStr(run.content)

\* the str argument as the word it is
Word(x) == x[2][1]

\* what each method returns on the outcome `run` of its remote call
Returns(method, a, run) ==
    CASE method = "generate_decision_points" -> generate_decision_points(run)
      [] method = "generate_decision_point" -> generate_decision_point(run)
      [] method = "generate_knowledge_assessment" ->
            generate_knowledge_assessment(run, Word(a.scenario_title),
                Word(a.scenario_domain), Word(a.user_industry),
                Word(a.user_role), Word(a.experience_level),
                a.num_questions[2])
      [] OTHER -> TextResult(run)

-----------------------------------------------------------------------------
(* One call of a generator method on one response *)

Titles == {W("Phished"), JStr(<<"Locked", " ", "Out">>)}

\* the arguments of the calls, those of app.py among them
ScenarioArgs ==
    {[security_domain |-> W("phishing"), threat_type |-> W("Phished"),
      industry |-> W("technology"), role |-> JStr(<<"it", " ", "professional">>),
      experience_level |-> W("beginner")],
     [security_domain |-> W("ransomware"), threat_type |-> W("malware"),
      industry |-> W("general"), role |-> W("general"),
      experience_level |-> W("beginner")]}

PointsArgs ==
    {[scenario_title |-> title, scenario_domain |-> W("phishing"),
      user_industry |-> W("technology"), user_role |-> W("manager"),
      experience_level |-> W("advanced")] : title \in Titles}

PointArgs ==
    {[scenario_title |-> W("Phished"), scenario_domain |-> W("phishing"),
      user_industry |-> W("technology"), user_role |-> W("manager"),
      experience_level |-> W("advanced"), decision_number |-> JNum(n)] :
        n \in {1, 3}}

AnalysisArgs ==
    {[user_decision |-> JStr(<<"Report", " ", "it">>),
      scenario_description |-> W("Phished"), is_correct |-> flag] :
        flag \in {JBool(TRUE), JBool(FALSE), None}}

MomentArgs ==
    {[scenario_description |-> title, security_domain |-> W("phishing")] :
        title \in Titles}

AssessmentArgs ==
    {[scenario_title |-> W("Phished"), num_questions |-> JNum(n)] : n \in {3, 5}}

RecommendationArgs ==
    {[strengths |-> JArr(areas), knowledge_gaps |-> JArr(<<W("backups")>>),
      industry |-> W("technology"), role |-> W("manager")] :
        areas \in {<<>>, <<W("phishing"), W("passwords")>>}}

KnowledgeArgs ==
    {[scenario_title |-> W("Phished"), scenario_domain |-> W("phishing"),
      user_industry |-> W("technology"), user_role |-> W("manager"),
      experience_level |-> W("advanced"), num_questions |-> JNum(n)] :
        n \in {3, 5}}

\* the responses: of each kind of Payloads, those that differ in whether
\* the remote call, the parsing and the validation succeed
GeneratorPayloads ==
    {p \in Payloads :
        \/ p.kind = "raise"
        \/ p.kind = "garbage" /\ p.val = W("oops")
        \/ /\ p.kind \in {"points", "assessment"}
           /\ p.form \in {"bare", "plain_fence"}
           /\ p.val[1] = "arr" => Len(p.val[2]) = 1
           /\ p.val[1] = "obj" => Len(p.val[2][K("questions")][2]) = 1
           /\ \E d \in Companions :
                p.val \in {MkList(<<d>>), MkAssessment(<<d>>)}
        \/ /\ p.kind = "point"
           /\ p.form \in {"bare", "plain_fence"}
           /\ p.val = MkPoint([q |-> TRUE, h |-> TRUE,
                               o |-> [t |-> "list", l |-> <<"F", "T">>]], 1)}

InitGenerators ==
    /\ payload \in GeneratorPayloads
    /\ response = Run(payload)
    /\ call = "none"
    /\ args = NoArgs
    /\ result = None
    /\ sent = <<>>
    /\ profile = IdleProfile
    /\ file = <<>>
    /\ reads = 0
    /\ recorded = <<>>
    /\ session = IdleSession

\* method is called with the arguments a
Invoke(method, a) ==
    /\ call = "none"
    /\ call' = method
    /\ args' = a
    /\ sent' = RemoteCalls(Format(Template(method), Kwargs(method, a)), response)
    /\ result' = Returns(method, a, response)
    /\ UNCHANGED <<response, payload, profile, file, reads, recorded, session>>

GenerateScenario == \E a \in ScenarioArgs : Invoke("generate_scenario", a)
GenerateDecisionPoints == \E a \in PointsArgs : Invoke("generate_decision_points", a)
GenerateDecisionPoint == \E a \in PointArgs : Invoke("generate_decision_point", a)
AnalyzeDecision == \E a \in AnalysisArgs : Invoke("analyze_decision", a)
GenerateLearningMoment == \E a \in MomentArgs : Invoke("generate_learning_moment", a)
GenerateAssessment == \E a \in AssessmentArgs : Invoke("generate_assessment", a)
GenerateRecommendations ==
    \E a \in RecommendationArgs : Invoke("generate_recommendations", a)
GenerateKnowledgeAssessment ==
    \E a \in KnowledgeArgs : Invoke("generate_knowledge_assessment", a)

NextGenerators ==
    \/ GenerateScenario
    \/ GenerateDecisionPoints
    \/ GenerateDecisionPoint
    \/ AnalyzeDecision
    \/ GenerateLearningMoment
    \/ GenerateAssessment
    \/ GenerateRecommendations
    \/ GenerateKnowledgeAssessment

SpecGenerators == InitGenerators /\ [][NextGenerators]_vars

-----------------------------------------------------------------------------
(* Properties of the generator calls *)

\* C15: each invocation of a generator method (all 8 of them) makes exactly
\* one call of the remote model, whether that call raises or returns and
\* whether parsing and validation of what it returns succeed or fail; no
\* call is made a second time.
C15_OneRemoteCall == call # "none" => Len(sent) = 1

\* generate_decision_points on a response that does not parse: it returned
\* None after its one call
C15_Witness ==
    /\ call = "generate_decision_points"
    /\ payload.kind = "garbage"
    /\ result = None
    /\ Len(sent) = 1

\* the fallback that the call of generate_knowledge_assessment in `args`
\* returns
FallbackOfCall ==
    FallbackAssessment(Word(args.scenario_title), Word(args.scenario_domain),
        Word(args.user_industry), Word(args.user_role),
        Word(args.experience_level), args.num_questions[2])

\* C17 as stated: when the call of the remote model raises, the failure
\* reaches the caller of the generator method as an exception, for every
\* generator method; it is not converted to None or to fallback content.
C17_FailureSurfaces ==
    (call # "none" /\ response.raised) => result = Raised

\* C17 (amended): when the call of the remote model raises, an exception
\* reaches the caller of every generator method but
\* generate_knowledge_assessment, which returns its static fallback
\* assessment; no method returns None.
C17_FailureSurfacesOrFallback ==
    (call # "none" /\ response.raised) =>
        IF call = "generate_knowledge_assessment"
        THEN result = FallbackOfCall
        ELSE result = Raised

\* the remote call of generate_knowledge_assessment raised and the caller
\* got the fallback of 3 questions
C17_Witness ==
    /\ call = "generate_knowledge_assessment"
    /\ response.raised
    /\ result = FallbackOfCall
    /\ Len(result[2][K("questions")][2]) = 3

\* s is a part of t: t holds the tokens of s, one after the other
IsInfix(s, t) ==
    \E i \in 0..(Len(t) - Len(s)) : SubSeq(t, i + 1, i + Len(s)) = s

\* C20 as stated: for every generator method and every set of parameters
\* passed to it, the prompt sent to the remote model contains the literal
\* value of every parameter.
C20_EveryParameterInPrompt ==
    call # "none" =>
        \A param \in DOMAIN args : IsInfix(Str(args[param]), sent[1])

\* C20 (amended): for every generator method and every set of parameters
\* passed to it, the prompt sent to the remote model contains the value of
\* every str and int parameter; of a list parameter (strengths,
\* knowledge_gaps) it contains the elements joined by ", ", and of
\* is_correct the word correct when it is true and the word incorrect when
\* it is false or None.
C20_ParametersInPrompt ==
    call # "none" =>
        \A param \in DOMAIN args :
            LET value == args[param] IN
            CASE value[1] \in {"str", "num"} -> IsInfix(Str(value), sent[1])
              [] value[1] = "arr" ->
                    IsInfix(Join([i \in 1..Len(value[2]) |-> value[2][i][2]],
                                 <<", ">>), sent[1])
              [] OTHER ->
                    IsInfix(<<IF Truthy(value) THEN "correct" ELSE "incorrect">>,
                            sent[1])

\* analyze_decision was called with is_correct = True: the prompt says
\* correct, and nowhere True
C20_Witness ==
    /\ call = "analyze_decision"
    /\ args.is_correct = JBool(TRUE)
    /\ IsInfix(<<"correct">>, sent[1])
    /\ ~IsInfix(<<"True">>, sent[1])


-----------------------------------------------------------------------------
(* Properties of the extraction: prose around the payload (checked under   *)
(* SpecAgent)                                                              *)

\* the response that holds the payload alone
Alone(p) == Run([p EXCEPT !.form = "bare"])

\* the payload is valid and of the kind that the called method expects
ExpectedPayload ==
    \/ /\ call = "generate_decision_points"
       /\ payload.kind = "points"
       /\ Len(payload.val[2]) >= 1
       /\ \A i \in 1..Len(payload.val[2]) : PointInSchema(payload.val[2][i])
    \/ /\ call = "generate_decision_point"
       /\ payload.kind = "point"
       /\ PointInSchema(payload.val)
       /\ HasKey(payload.val, "html_content")
    \/ /\ call = "generate_knowledge_assessment"
       /\ payload.kind = "assessment"
       /\ AssessmentValid(payload.val)

\* what the called method returns on the payload alone
ResultOnPayloadAlone ==
    CASE call = "generate_decision_points" ->
            generate_decision_points(Alone(payload))
      [] call = "generate_decision_point" ->
            generate_decision_point(Alone(payload))
      [] OTHER ->
            generate_knowledge_assessment(Alone(payload), args.scenario_title,
                args.scenario_domain, args.user_industry, args.user_role,
                args.experience_level, args.num_questions)

\* C18: a valid payload of the expected kind, bare or inside a ```json
\* fence, followed by prose commentary gives each of the three
\* JSON-returning generators the same result as the payload alone.
C18_TrailingCommentaryIgnored ==
    (/\ ExpectedPayload
     /\ payload.form \in {"trailing", "fenced_trailing"})
    => result = ResultOnPayloadAlone


\* C19: when a response to generate_decision_points holds two separate
\* arrays of valid decision points with prose between them, the result is
\* exactly the first array.
C19_FirstArrayWins ==
    (/\ call = "generate_decision_points"
     /\ payload.kind = "two_lists")
    => result = payload.val[2][1]


-----------------------------------------------------------------------------
(* The profile file and the sessions that share it.  Every session holds   *)
(* its own UserProfile("default") (app.py, lines 30-32), and all of them   *)
(* read and write profiles/default.json.  The file holds text, a sequence  *)
(* of tokens; lengths and offsets are counted in tokens.  A number is      *)
(* written as its decimal digits; a skill level as those of its number of  *)
(* 600ths.                                                                 *)

\* the keys of the profile document, in the order json.dump meets them
ProfileKeys ==
    <<"personal_info", "name", "email", "industry", "role",
      "experience_level", "progress", "completed_scenarios", "scenario_id",
      "performance", "points_earned", "skill_impacts", "mistakes", "area",
      "correct_decisions", "current_scenario", "skill_levels",
      "phishing_awareness", "ransomware_prevention",
      "social_engineering_defense", "data_protection", "network_security",
      "incident_response", "password_management", "secure_communication",
      "cloud_security", "achievements", "total_points", "preferences",
      "learning_style", "difficulty", "session_duration", "assessment",
      "knowledge_gaps", "strengths", "recommended_focus_areas">>

\* a str of Python as a JSON value, and back
ToStr(x) == IF x = "" THEN JStr(<<>>) ELSE W(x)
FromStr(j) == IF j[2] = <<>> THEN "" ELSE j[2][1]

\* a dict whose keys are the fields of record r
ToDict(r, value(_)) == JObj([key \in {K(x) : x \in DOMAIN r} |-> value(r[key[1]])])
FromDict(j, value(_)) == [x \in {key[1] : key \in DOMAIN j[2]} |-> value(j[2][K(x)])]

ToList(s, value(_)) == JArr([i \in 1..Len(s) |-> value(s[i])])
FromList(j, value(_)) == [i \in 1..Len(j[2]) |-> value(j[2][i])]

ToNum(n) == JNum(n)
FromNum(j) == j[2]

\* a list of {"area": ...}
ToAreas(areas) ==
    ToList(areas, LAMBDA area : JObj([key \in {K("area")} |-> ToStr(area)]))
FromAreas(j) == FromList(j, LAMBDA x : FromStr(x[2][K("area")]))

\* performance_data: points_earned is a key of it or not; correct_decisions
\* is a list or a number
ToPerformance(performance_data) ==
    JObj([key \in (IF performance_data.has_points THEN {K("points_earned")} ELSE {})
                  \cup {K("skill_impacts"), K("mistakes"), K("correct_decisions")} |->
        CASE key = K("points_earned") -> ToNum(performance_data.points_earned)
          [] key = K("skill_impacts") -> ToDict(performance_data.skill_impacts, ToNum)
          [] key = K("mistakes") -> ToAreas(performance_data.mistakes)
          [] OTHER ->
                IF performance_data.correct_decisions.type = "int"
                THEN ToNum(performance_data.correct_decisions.count)
                ELSE ToAreas(performance_data.correct_decisions.areas)])

FromPerformance(j) ==
    [has_points |-> K("points_earned") \in DOMAIN j[2],
     points_earned |-> IF K("points_earned") \in DOMAIN j[2]
                       THEN FromNum(j[2][K("points_earned")]) ELSE 0,
     skill_impacts |-> FromDict(j[2][K("skill_impacts")], FromNum),
     mistakes |-> FromAreas(j[2][K("mistakes")]),
     correct_decisions |->
        IF j[2][K("correct_decisions")][1] = "num"
        THEN Count(FromNum(j[2][K("correct_decisions")]))
        ELSE AreaList(FromAreas(j[2][K("correct_decisions")]))]

ToCompletion(c) ==
    JObj([key \in {K("scenario_id"), K("performance")} |->
        IF key = K("scenario_id") THEN ToStr(c.scenario_id)
        ELSE ToPerformance(c.performance)])

FromCompletion(j) ==
    [scenario_id |-> FromStr(j[2][K("scenario_id")]),
     performance |-> FromPerformance(j[2][K("performance")])]

\* self.profile as the JSON value that json.dump writes: None is null
ToJson(self) ==
    JObj([key \in {K(x) : x \in DOMAIN self} |->
        CASE key = K("personal_info") -> ToDict(self.personal_info, ToStr)
          [] key = K("progress") ->
                JObj([k \in {K(x) : x \in DOMAIN self.progress} |->
                    CASE k = K("completed_scenarios") ->
                            ToList(self.progress.completed_scenarios, ToCompletion)
                      [] k = K("current_scenario") ->
                            IF self.progress.current_scenario = NoScenario
                            THEN None
                            ELSE ToStr(self.progress.current_scenario)
                      [] k = K("skill_levels") ->
                            ToDict(self.progress.skill_levels, ToNum)
                      [] k = K("achievements") ->
                            ToList(self.progress.achievements, ToStr)
                      [] OTHER -> ToNum(self.progress.total_points)])
          [] key = K("preferences") ->
                JObj([k \in {K(x) : x \in DOMAIN self.preferences} |->
                    IF k = K("session_duration")
                    THEN ToNum(self.preferences.session_duration)
                    ELSE ToStr(self.preferences[k[1]])])
          [] OTHER -> ToDict(self.assessment, LAMBDA l : ToList(l, ToStr))])

\* the value that json.load returns, as self.profile
FromJson(j) ==
    [personal_info |-> FromDict(j[2][K("personal_info")], FromStr),
     progress |->
        LET progress == j[2][K("progress")][2] IN
        [completed_scenarios |->
            FromList(progress[K("completed_scenarios")], FromCompletion),
         current_scenario |->
            IF progress[K("current_scenario")] = None THEN NoScenario
            ELSE FromStr(progress[K("current_scenario")]),
         skill_levels |-> FromDict(progress[K("skill_levels")], FromNum),
         achievements |-> FromList(progress[K("achievements")], FromStr),
         total_points |-> FromNum(progress[K("total_points")])],
     preferences |->
        LET preferences == j[2][K("preferences")][2] IN
        [x \in {key[1] : key \in DOMAIN preferences} |->
            IF x = "session_duration" THEN FromNum(preferences[K(x)])
            ELSE FromStr(preferences[K(x)])],
     assessment |->
        FromDict(j[2][K("assessment")], LAMBDA l : FromList(l, FromStr))]

RECURSIVE Decimal(_)
\* the digits of n >= 0
Decimal(n) ==
    IF n < 10 THEN <<Numerals[n + 1]>>
    ELSE Decimal(n \div 10) \o <<Numerals[(n % 10) + 1]>>

\* a newline and the indentation of a nesting level
Indent(level) == <<"\n">> \o [i \in 1..level |-> " "]

RECURSIVE Dump(_, _), DumpElems(_, _, _), DumpMembers(_, _, _, _)

\* json.dump(x, f, indent=2): the text of x at a nesting level
Dump(x, level) ==
    CASE x[1] = "str" -> <<QUOTE>> \o x[2] \o <<QUOTE>>
      [] x[1] = "bool" -> IF x[2] THEN <<"true">> ELSE <<"false">>
      [] x[1] = "num" ->
            IF x[2] < 0 THEN <<"-">> \o Decimal(0 - x[2]) ELSE Decimal(x[2])
      [] x[1] = "arr" ->
            IF x[2] = <<>> THEN <<"[", "]">>
            ELSE <<"[">> \o DumpElems(x[2], 1, level + 1)
                 \o Indent(level) \o <<"]">>
      [] x[1] = "obj" ->
            IF DOMAIN x[2] = {} THEN <<"{", "}">>
            ELSE <<"{">>
                 \o DumpMembers(x[2],
                        SelectSeq(ProfileKeys, LAMBDA key : K(key) \in DOMAIN x[2]),
                        1, level + 1)
                 \o Indent(level) \o <<"}">>
      [] OTHER -> <<"null">>

DumpElems(s, i, level) ==
    IF i > Len(s) THEN <<>>
    ELSE (IF i > 1 THEN <<",">> ELSE <<>>) \o Indent(level)
         \o Dump(s[i], level) \o DumpElems(s, i + 1, level)

DumpMembers(f, keys, i, level) ==
    IF i > Len(keys) THEN <<>>
    ELSE (IF i > 1 THEN <<",">> ELSE <<>>) \o Indent(level)
         \o <<QUOTE, keys[i], QUOTE, ":", " ">> \o Dump(f[K(keys[i])], level)
         \o DumpMembers(f, keys, i + 1, level)

\* the text that save writes for self.profile
json_dump(self) == Dump(ToJson(self), 0)

\* bytes that are no UTF-8 text
UNDECODABLE == "<0xff>"

\* f.read() returns the content: no byte of it fails to decode
Decodable(content) == \A i \in 1..Len(content) : content[i] # UNDECODABLE

\* Variant of _load_profile: the personal_info of the file is merged into
\* the defaults, the rest of the defaults is kept
_load_profile_merging(self, saved) ==
    IF saved = <<>> THEN [raised |-> FALSE, profile |-> self]
    ELSE IF ~Decodable(saved[1]) THEN [raised |-> TRUE, profile |-> self]
    ELSE LET loaded == Loads(saved[1])
         IN [raised |-> FALSE,
             profile |-> IF loaded.ok
                         THEN [self EXCEPT !.personal_info =
                                    FromJson(loaded.val).personal_info]
                         ELSE self]

\* lines 67-78: when the file exists, self.profile becomes what json.load
\* returns; json.JSONDecodeError and IOError are caught and leave
\* self.profile as it is, and UnicodeDecodeError, which is neither, leaves
\* the constructor
_load_profile(self, saved) ==
    IF saved = <<>> THEN [raised |-> FALSE, profile |-> self]
    ELSE IF ~Decodable(saved[1]) THEN [raised |-> TRUE, profile |-> self]
    ELSE LET loaded == Loads(saved[1])
         IN [raised |-> FALSE,
             profile |-> IF loaded.ok THEN FromJson(loaded.val) ELSE self]

\* open(profile_path, "w"): the file exists and is empty
Truncated == <<<<>>>>

\* Variant of WriteAtStart: the file is as long as what was written last
WriteWhole(saved, text) == <<text>>

\* the text is written from offset 0 on when the file is closed; what the
\* file holds beyond the end of the text stays
WriteAtStart(saved, text) ==
    <<text \o SubSeq(saved[1], Len(text) + 1, Len(saved[1]))>>


-----------------------------------------------------------------------------
(* Two sessions on one profile file.  A save is two steps, between which   *)
(* the other session may run: the file is opened for writing, and the text *)
(* is written when the file is closed.                                     *)

SessionIds == {1, 2}

\* most saves begun by all sessions together
MaxSaves == 2

\* the document that an earlier run of the app left in the file
EarlierDocument ==
    update_personal_info(DefaultProfile,
        [key \in {"name", "industry", "role"} |->
            CASE key = "name" -> "Ana"
              [] key = "industry" -> "healthcare"
              [] OTHER -> "nurse"])

\* the file when the app starts: none, the document of an earlier run, the
\* first part of it, text that is no JSON, bytes that are no text
InitialFiles ==
    {<<>>,
     <<json_dump(EarlierDocument)>>,
     <<SubSeq(json_dump(EarlierDocument), 1, Len(json_dump(EarlierDocument)) \div 2)>>,
     <<<<"oops">>>>,
     <<<<UNDECODABLE, "{", "}">>>>}

\* what the sessions pass to record_scenario_completion: the performance
\* data of the summary page after no and after 2 correct decisions
StoreCompletions ==
    {SummaryPerformance(0, 3, 5, 5), SummaryPerformance(2, 3, 5, 5)}

NoSession == [pc |-> "absent", profile |-> DefaultProfile]

InitStore ==
    /\ file \in InitialFiles
    /\ session = [s \in SessionIds |-> NoSession]
    /\ recorded = <<>>
    /\ call = "none"
    /\ args = <<>>
    /\ result = None
    /\ profile = IdleProfile
    /\ reads = 0
    /\ response = IdleResponse
    /\ payload = IdlePayload
    /\ sent = <<>>

\* saves begun and not finished
Writing == {s \in SessionIds : session[s].pc = "writing"}

\* a session starts: user_profile = UserProfile()
Construct(s) ==
    /\ session[s].pc = "absent"
    /\ LET loaded == _load_profile(DefaultProfile, file)
       IN /\ session' = [session EXCEPT ![s] =
                            IF loaded.raised THEN NoSession
                            ELSE [pc |-> "idle", profile |-> loaded.profile]]
          /\ result' = IF loaded.raised THEN Raised ELSE None
    /\ call' = "UserProfile"
    /\ args' = <<s>>
    /\ UNCHANGED <<file, recorded, profile, reads, response, payload, sent>>

\* save up to open(profile_path, "w")
OpenForWriting(s, self) ==
    /\ session' = [session EXCEPT ![s] = [pc |-> "writing", profile |-> self]]
    /\ file' = Truncated

StoreUpdatePersonalInfo(s) ==
    /\ session[s].pc = "idle"
    /\ Len(recorded) + Cardinality(Writing) < MaxSaves
    /\ \E kwargs \in PersonalInfoChoices :
        /\ OpenForWriting(s, update_personal_info(session[s].profile, kwargs))
        /\ args' = <<s, kwargs>>
    /\ call' = "update_personal_info"
    /\ result' = None
    /\ UNCHANGED <<recorded, profile, reads, response, payload, sent>>

\* record_scenario_completion saves unless _update_assessment raised
StoreRecordCompletion(s) ==
    /\ session[s].pc = "idle"
    /\ Len(recorded) + Cardinality(Writing) < MaxSaves
    /\ Len(session[s].profile.progress.completed_scenarios) < MaxCompletions
    /\ \E performance_data \in StoreCompletions :
        LET done == record_scenario_completion(session[s].profile, file,
                        "phishing-1", performance_data)
        IN /\ IF done.raised
              THEN /\ session' = [session EXCEPT ![s].profile = done.profile]
                   /\ file' = file
              ELSE OpenForWriting(s, done.profile)
           /\ result' = IF done.raised THEN Raised ELSE None
           /\ args' = <<s, performance_data>>
    /\ call' = "record_scenario_completion"
    /\ UNCHANGED <<recorded, profile, reads, response, payload, sent>>

\* save from json.dump on: the file is written and closed
CloseFile(s) ==
    /\ session[s].pc = "writing"
    /\ file' = WriteAtStart(file, json_dump(session[s].profile))
    /\ session' = [session EXCEPT ![s].pc = "idle"]
    /\ recorded' = Append(recorded, [by |-> s, document |-> session[s].profile])
    /\ call' = "save"
    /\ args' = <<s>>
    /\ result' = None
    /\ UNCHANGED <<profile, reads, response, payload, sent>>

NextStore ==
    \E s \in SessionIds :
        \/ Construct(s)
        \/ StoreUpdatePersonalInfo(s)
        \/ StoreRecordCompletion(s)
        \/ CloseFile(s)

SpecStore == InitStore /\ [][NextStore]_vars


-----------------------------------------------------------------------------
(* Properties of the profile file (checked under SpecStore) *)

\* the document saved last: by the save that finished last, or by the
\* earlier run when no save has finished
LastSaved ==
    IF recorded = <<>> THEN EarlierDocument
    ELSE recorded[Len(recorded)].document

\* a step in which session s constructs its UserProfile
Constructing(s) == call' = "UserProfile" /\ args' = <<s>>

C21_Step ==
    \A s \in SessionIds :
        (Constructing(s) /\ file = <<json_dump(LastSaved)>>)
        => /\ result' = None
           /\ session'[s] = [pc |-> "idle", profile |-> LastSaved]

\* C21: constructing UserProfile when the file holds the document saved
\* last yields an in-memory profile equal to that document, whatever the
\* defaults of the constructor are: save followed by load is the identity
\* on the profile document.
C21_LoadReturnsSaved == [][C21_Step]_vars

\* a session has loaded a document with a completion in it, saved by the
\* other session
C21_Witness ==
    /\ call = "UserProfile"
    /\ result = None
    /\ recorded # <<>>
    /\ file = <<json_dump(LastSaved)>>
    /\ Len(LastSaved.progress.completed_scenarios) = 1
    /\ LastSaved.personal_info.name = "Ana"
    /\ \E s \in SessionIds :
        /\ args = <<s>>
        /\ recorded[Len(recorded)].by # s
        /\ session[s] = [pc |-> "idle", profile |-> LastSaved]

\* C22: once two sessions on the same user id have mutated and saved, in
\* any interleaving, the file equals the entire document of the session
\* that saved last, so that what only the other session recorded is not
\* in it.
C22_LastWriterWins ==
    (recorded # <<>> /\ Writing = {})
    => file = <<json_dump(recorded[Len(recorded)].document)>>

\* the file cannot be read, or what is read is no JSON
Unreadable(saved) ==
    saved # <<>> /\ (~Decodable(saved[1]) \/ ~Loads(saved[1]).ok)

C30_Step ==
    \A s \in SessionIds :
        (Constructing(s) /\ Unreadable(file))
        => /\ result' = None
           /\ session'[s] = [pc |-> "idle", profile |-> DefaultProfile]
           /\ file' = file

\* C30: when the profile file exists but cannot be read or parsed as JSON,
\* constructing UserProfile raises nothing and keeps the default profile,
\* and the file is left as it is.
C30_UnreadableFileKeepsDefaults == [][C30_Step]_vars


-----------------------------------------------------------------------------
(* Properties of the attempts of a scenario (checked under SpecReliable) *)

\* the click that answers a decision point moves the session from
\* run_scenario to scenario_summary
EnteringSummary ==
    /\ session.current_step = "run_scenario"
    /\ session'.current_step = "scenario_summary"

\* Start Scenario is pressed on a scenario that has no attempt going on
StartingAttempt ==
    /\ session.current_step = "select_scenario"
    /\ session'.current_step = "run_scenario"
    /\ session'.available_scenarios[session'.current_scenario]
            .current_decision_index \notin {1, 2}

C23_Step ==
    EnteringSummary
    => /\ recorded # <<>>
       /\ session'.available_scenarios[recorded[1].scenario_id].current_decision_index
            - recorded[1].answered = 3

\* C23: in every attempt of a scenario, begun by pressing Start Scenario,
\* exactly 3 decision points are answered before the session moves from
\* run_scenario to scenario_summary, also when the scenario had been
\* started before.
C23_ThreeDecisionsPerAttempt == [][C23_Step]_vars

C26_Step ==
    EnteringSummary
    => /\ ~session'.has_current_assessment
       /\ ~session'.assessment_submitted
       /\ ~session'.scenario_recorded

\* C26: when scenario_summary is entered, no current_assessment, no
\* assessment_submitted and no scenario_recorded of an earlier attempt is
\* left in the session, so that the assessment shown was generated in the
\* current attempt.
C26_SummaryStartsFresh == [][C26_Step]_vars

C27_Step ==
    StartingAttempt
    => session'.scenarios_decision_history[session'.current_scenario] = <<>>

\* the decisions counted by the summary page are at most those of one
\* attempt
C27_AtMostThree ==
    session.current_step = "scenario_summary"
    => Len(session.scenarios_decision_history[session.current_scenario]) <= 3

\* C27: when an attempt of a scenario starts, the decision history kept
\* for its id is empty, so that the total_decisions that the summary page
\* records is at most the 3 decisions of one attempt.
C27_HistoryOfOneAttempt == [][C27_Step]_vars /\ []C27_AtMostThree

-----------------------------------------------------------------------------
(* Properties of the recording made by the summary page *)

\* the summary page has run its recording block in this step
SummaryRecording == call' = "show_scenario_summary"

\* what the summary page was given in this step
SummaryGiven ==
    CHOOSE c \in SummaryChoices :
        args' = <<c.scenario_id,
                  SummaryPerformance(c.correct_decisions, c.total_decisions,
                                     c.correct_count, c.questions)>>

\* overall_score / 100 * 0.5 in 600ths of a level, where overall_score is
\* 60% of the share of correct decisions plus 40% of the share of right
\* answers, both in percent
HalfOfOverall(c) ==
    (3 * (60 * c.correct_decisions * c.questions
          + 40 * c.correct_count * c.total_decisions))
        \div (c.total_decisions * c.questions)

C24_Step ==
    SummaryRecording
    => LET c == SummaryGiven
           skill == SkillField(c.domain)
           levels == profile.progress.skill_levels
           before == IF skill \in DOMAIN levels THEN levels[skill] ELSE 0
       IN /\ skill \in DOMAIN profile'.progress.skill_levels
          /\ profile'.progress.skill_levels[skill]
                = Min(Level(5), before + HalfOfOverall(c))
          /\ file' = <<profile'>>

\* C24 (checked under SpecProfile): when the summary page records a
\* completion after the assessment was submitted, the skill level of the
\* scenario's domain is raised by (overall_score / 100) * 0.5, capped at 5,
\* and the profile is saved, whatever the number of correct decisions.
C24_SkillRaisedAndSaved == [][C24_Step]_vars

\* the same for the completions with no correct decision
C24_NoCorrectDecision ==
    [][SummaryRecording /\ SummaryGiven.correct_decisions = 0 => C24_Step]_vars

\* the completions that the profile has gained since Start Scenario was
\* pressed last
GainedInAttempt ==
    Len(profile.progress.completed_scenarios) - recorded[1].completed

\* C25 (checked under SpecReliable): in one attempt of a scenario, however
\* many times the summary page runs after the assessment was submitted,
\* completed_scenarios gains at most one record and total_points grows by
\* the points_earned of that record at most once.
C25_RecordedOncePerAttempt ==
    recorded # <<>>
    => /\ GainedInAttempt <= 1
       /\ profile.progress.total_points - recorded[1].total_points
            <= (IF GainedInAttempt = 0 THEN 0
                ELSE profile.progress.completed_scenarios[
                        Len(profile.progress.completed_scenarios)]
                        .performance.points_earned)

\* the same for the attempts in which no decision was correct
C25_NoCorrectDecision ==
    (/\ recorded # <<>>
     /\ \A id \in ScenarioIds :
            CorrectDecisions(session.scenarios_decision_history[id]) = 0)
    => C25_RecordedOncePerAttempt

-----------------------------------------------------------------------------
(* Properties of the steps of the session (checked under SpecApp) *)

Steps == {"welcome", "select_scenario", "run_scenario", "scenario_summary",
          "progress", "certificate"}

\* the welcome page is left for the scenario selection only, by a run that
\* stores a name, an industry and a role in the profile and saves it
C28_Step ==
    (session.current_step = "welcome" /\ session'.current_step # "welcome")
    => /\ session'.current_step = "select_scenario"
       /\ profile.personal_info.name = ""
       /\ profile'.personal_info.name # ""
       /\ profile'.personal_info.industry \notin {"", "select your industry"}
       /\ profile'.personal_info.role \notin {"", "select your role"}
       /\ file' = <<profile'>>

\* C28: current_step is always one of welcome, select_scenario,
\* run_scenario, scenario_summary, progress and certificate, and the
\* session is in a step other than welcome only after personal_info.name
\* was set to a non-empty value in this session, by the onboarding form
\* submitted with a name, an industry and a role or by the demo skip.
C28_StepsAfterOnboarding ==
    /\ session.current_step \in Steps
    /\ session.current_step # "welcome"
        => /\ profile.personal_info.name # ""
           /\ profile.personal_info.industry \notin {"", "select your industry"}
           /\ profile.personal_info.role \notin {"", "select your role"}

\* the same, seen at the run that leaves the welcome page
C28_LeavingWelcome == [][C28_Step]_vars

\* the certificate page is shown to a user who gave a name
C28_Witness ==
    /\ session.current_step = "certificate"
    /\ session.display.page = "certificate"
    /\ profile.personal_info.name = "Demo User"

\* the certificate step is entered from the summary page only, and the
\* summary step from the page of the scenario only
C29_Step ==
    /\ (session.current_step # "certificate"
        /\ session'.current_step = "certificate")
        => session.current_step = "scenario_summary"
    /\ (session.current_step # "scenario_summary"
        /\ session'.current_step = "scenario_summary")
        => /\ session.current_step = "run_scenario"
           /\ session.current_scenario \in ScenarioIds

\* C29: whenever current_step is scenario_summary or certificate,
\* current_scenario is not None; and whenever current_step is certificate,
\* current_assessment and assessment_answers exist and assessment_submitted
\* is true, the certificate step being entered only from the summary page
\* after the assessment was submitted.
C29_PagesHaveTheirData ==
    /\ session.current_step \in {"scenario_summary", "certificate"}
        => session.current_scenario \in ScenarioIds
    /\ session.current_step = "certificate"
        => /\ session.has_current_assessment
           /\ session.has_assessment_answers
           /\ session.assessment_submitted

\* the same, seen at the runs that enter the two steps
C29_EnteredFromThePageBefore == [][C29_Step]_vars

\* the certificate page is drawn for an assessment of 5 questions
C29_Witness ==
    /\ session.current_step = "certificate"
    /\ session.display.page = "certificate"
    /\ session.current_scenario \in ScenarioIds
    /\ session.questions = 5
    /\ session.assessment_submitted

====
